---- MODULE Spec2Model ----
(***************************************************************************)
(* Model of the collection core of summerise-genai (ssamai): the three     *)
(* per-source collectors (gemini_cli, amazon_q, claude_code), the          *)
(* concurrent session-file pipeline, the history parsers and the           *)
(* date-range filter.                                                      *)
(*                                                                         *)
(* One Collect call is modelled per behaviour.  Init draws the collector,  *)
(* the request and the content of the disk from bounded sets; the actions  *)
(* are the steps of the goroutines of that call.  Time is counted in       *)
(* hours since the zero time.Time, so 0 is the zero value (IsZero).        *)
(***************************************************************************)
EXTENDS Integers, Sequences, FiniteSets, TLC

\* ------------------------------------------------------------------ bounds
MaxFiles == 2
MaxLines == 1
NumCPU == 2
MaxAwsFiles == 1
MaxItems == 2
MaxRecords == 3
EarlyTime == 10
MidTime == 15
LateTime == 20
Now == 30

\* ------------------------------------------------------ program constants
maxWorkers == 10
amazonQMaxWorkers == 10
AwsPathCount == 4
DummyAge1 == 24
DummyAge2 == 12
DummyAge3 == 6

SourceClaudeCode == "claude_code"
SourceGeminiCLI == "gemini_cli"
SourceAmazonQ == "amazon_q"
Sources == {SourceClaudeCode, SourceGeminiCLI, SourceAmazonQ}

NoErr == "nil"
Canceled == "context.Canceled"
DeadlineExceeded == "context.DeadlineExceeded"
CtxErrors == {Canceled, DeadlineExceeded}
\* A *DateRange and a *CollectionConfig: nil is the nil pointer.
NilRange == [nil |-> TRUE, Start |-> 0, End |-> 0]
NilRequest == [nil |-> TRUE, DateRange |-> NilRange]

\* ------------------------------------------------------------- utilities
min(S) == CHOOSE x \in S : \A y \in S : x <= y

minInts(S) == min(S)

Range(s) == {s[i] : i \in 1..Len(s)}

RECURSIVE SeqsUpTo(_, _)
SeqsUpTo(S, n) ==
    IF n = 0 THEN {<<>>}
    ELSE LET shorter == SeqsUpTo(S, n - 1)
         IN  shorter \cup {Append(s, x) : s \in {t \in shorter : Len(t) = n - 1}, x \in S}

\* A normalized record (models.SessionData): where it came from
\* (metadata source_type), its position in its file or directory, and its
\* timestamp.
Session(sourceType, idx, ts) == [source_type |-> sourceType, idx |-> idx, ts |-> ts]

IsDummy(r) == r.source_type = "dummy"

\* ------------------------------------------------------ date-range filter
Before(t, u) == t < u
After(t, u) == t > u
IsZero(t) == t = 0

\* A range check that leaves the boundaries out.
isWithinDateRangeExclusive(timestamp, dateRange) ==
    IF ~IsZero(dateRange.Start) /\ ~After(timestamp, dateRange.Start) THEN FALSE
    ELSE IF ~IsZero(dateRange.End) /\ ~Before(timestamp, dateRange.End) THEN FALSE
    ELSE TRUE

isWithinDateRange(timestamp, dateRange) ==
    IF ~IsZero(dateRange.Start) /\ Before(timestamp, dateRange.Start) THEN FALSE
    ELSE IF ~IsZero(dateRange.End) /\ After(timestamp, dateRange.End) THEN FALSE
    ELSE TRUE

RECURSIVE filterLoop(_, _, _)
filterLoop(sessions, dateRange, filtered) ==
    IF sessions = <<>> THEN filtered
    ELSE filterLoop(Tail(sessions), dateRange,
                    IF isWithinDateRange(Head(sessions).ts, dateRange)
                    THEN Append(filtered, Head(sessions))
                    ELSE filtered)

\* ImprovedGeminiCLICollector.filterByDateRange
geminiFilterByDateRange(sessions, dateRange) ==
    IF dateRange = NilRange THEN sessions
    ELSE filterLoop(sessions, dateRange, <<>>)

\* AmazonQCollector.filterByDateRange
amazonQFilterByDateRange(sessions, dateRange) ==
    IF dateRange = NilRange THEN sessions
    ELSE filterLoop(sessions, dateRange, <<>>)

RECURSIVE claudeFilterLoop(_, _, _)
claudeFilterLoop(sessions, dateRange, filtered) ==
    IF sessions = <<>> THEN filtered
    ELSE LET session == Head(sessions)
         IN  IF ~IsZero(dateRange.Start) /\ Before(session.ts, dateRange.Start)
             THEN claudeFilterLoop(Tail(sessions), dateRange, filtered)
             ELSE IF ~IsZero(dateRange.End) /\ After(session.ts, dateRange.End)
             THEN claudeFilterLoop(Tail(sessions), dateRange, filtered)
             ELSE claudeFilterLoop(Tail(sessions), dateRange, Append(filtered, session))

\* ClaudeCodeCollector.filterByDateRange
claudeFilterByDateRange(sessions, dateRange) ==
    IF dateRange = NilRange THEN sessions
    ELSE claudeFilterLoop(sessions, dateRange, <<>>)

filterByDateRange(k, sessions, dateRange) ==
    CASE k = SourceGeminiCLI -> geminiFilterByDateRange(sessions, dateRange)
      [] k = SourceAmazonQ -> amazonQFilterByDateRange(sessions, dateRange)
      [] OTHER -> claudeFilterByDateRange(sessions, dateRange)

\* AmazonQCollector.generateDummyData: three placeholder sessions dated
\* 24, 12 and 6 hours before now.
generateDummyData ==
    << Session("dummy", 1, Now - DummyAge1),
       Session("dummy", 2, Now - DummyAge2),
       Session("dummy", 3, Now - DummyAge3) >>

\* -------------------------------------------------------------- the disk
maxFileSize == 100 * 1024 * 1024
amazonQMaxFileSize == 100 * 1024 * 1024
maxMessagesPerFile == 10000
amazonQMaxMessagesPerFile == 10000

\* A file of the session directory: whether Stat and ReadFile succeed, its
\* size, whether its content decodes as a JSON object, its created_at
\* field (0: absent) and its modification time.
File(statOk, size, readOk, json, createdAt) ==
    [stat_ok |-> statOk, size |-> size, read_ok |-> readOk, json |-> json,
     created_at |-> createdAt, mod_time |-> MidTime]

\* A JSON session, a text file and a file that fails: over the size cap
\* (gemini_cli, amazon_q) or unreadable (claude_code, which has no cap).
SessionFileChoices(k) ==
    { File(TRUE, 1, TRUE, TRUE, EarlyTime),
      File(TRUE, 1, TRUE, FALSE, 0),
      IF k = SourceClaudeCode
      THEN File(TRUE, 1, FALSE, TRUE, EarlyTime)
      ELSE File(TRUE, maxFileSize + 1, TRUE, TRUE, EarlyTime) }

\* A line of a history file: its form after TrimSpace and, for a JSON
\* line, its timestamp field (0: absent).
Line(form, timestamp) == [form |-> form, timestamp |-> timestamp]

BlankLine == Line("blank", 0)

\* "json" is one history entry; "json_sessions" is an object whose
\* "sessions" array holds one session map (the claude_code history format).
HistoryLineChoices(k) ==
    IF k = SourceClaudeCode
    THEN { Line("text", 0), Line("json", EarlyTime), Line("json_sessions", EarlyTime) }
    ELSE { BlankLine, Line("text", 0), Line("badjson", 0), Line("json", EarlyTime) }

\* The history file: Stat's outcome, the size, ReadFile/Open's outcome and
\* the lines.
History(stat, size, readOk, lines) ==
    [stat |-> stat, size |-> size, read_ok |-> readOk, lines |-> lines]

NoHistory == History("notexist", 0, FALSE, <<>>)

\* No file, a file over the size cap whose one line is valid, or a file
\* within the cap with up to MaxLines lines.
HistoryChoices(k) ==
    { NoHistory, History("ok", maxFileSize + 1, TRUE, <<Line("json", EarlyTime)>>) }
    \cup { History("ok", 1, TRUE, ls) : ls \in SeqsUpTo(HistoryLineChoices(k), MaxLines) }

\* ----------------------------------------------------- history parsers
\* parseJSONHistoryEntry + convertHistoryEntryToSession.  The gemini
\* decoder rejects unknown fields, the amazon_q decoder accepts them.
geminiParseJSONHistoryEntry(line, lineNum) ==
    IF line.form = "json"
    THEN [err |-> FALSE,
          session |-> Session("history", lineNum,
                              IF line.timestamp # 0 THEN line.timestamp ELSE Now)]
    ELSE [err |-> TRUE]

amazonQParseJSONHistoryEntry(line, lineNum) ==
    IF line.form \in {"json", "json_unknown_field", "json_sessions"}
    THEN [err |-> FALSE,
          session |-> Session("history", lineNum,
                              IF line.timestamp # 0 THEN line.timestamp ELSE Now)]
    ELSE [err |-> TRUE]

HasBracePrefix(line) ==
    line.form \in {"json", "json_unknown_field", "json_sessions", "badjson"}

\* parseTextHistoryEntry
parseTextHistoryEntry(line, lineNum) == Session("history_text", lineNum, Now)

\* parseHistoryLine
parseHistoryLine(k, line, lineNum) ==
    IF HasBracePrefix(line)
    THEN IF k = SourceGeminiCLI
         THEN geminiParseJSONHistoryEntry(line, lineNum)
         ELSE amazonQParseJSONHistoryEntry(line, lineNum)
    ELSE [err |-> FALSE, session |-> parseTextHistoryEntry(line, lineNum)]

\* strings.Split(content, "\n") of the amazon_q parser: an empty file is
\* one empty line.
SplitLines(lines) == IF lines = <<>> THEN <<BlankLine>> ELSE lines

HistoryLines(k, history) ==
    IF k = SourceAmazonQ THEN SplitLines(history.lines) ELSE history.lines

\* ------------------------------------------------- session-file parsers
\* A parser that reports a file it cannot decode instead of falling back
\* to text.
parseSessionFileSafeNoFallback(k, file, path) ==
    IF ~file.stat_ok THEN [err |-> TRUE, reason |-> "stat"]
    ELSE IF file.size > (IF k = SourceAmazonQ THEN amazonQMaxFileSize ELSE maxFileSize) THEN [err |-> TRUE, reason |-> "too large"]
    ELSE IF ~file.read_ok THEN [err |-> TRUE, reason |-> "read"]
    ELSE IF ~file.json THEN [err |-> TRUE, reason |-> "invalid JSON"]
    ELSE [err |-> FALSE,
          session |-> Session("session", path,
                              IF file.created_at # 0 THEN file.created_at ELSE Now)]

\* A parser without the size check.
parseSessionFileSafeNoCap(k, file, path) ==
    IF ~file.stat_ok THEN [err |-> TRUE, reason |-> "stat"]
    ELSE IF ~file.read_ok THEN [err |-> TRUE, reason |-> "read"]
    ELSE IF ~file.json THEN [err |-> FALSE, session |-> Session("text", path, Now)]
    ELSE [err |-> FALSE,
          session |-> Session("session", path,
                              IF file.created_at # 0 THEN file.created_at ELSE Now)]

\* parseSessionFileSafe (gemini_cli and amazon_q): Stat, the size cap,
\* ReadFile, then JSON with the whole-text fallback.
parseSessionFileSafe(k, file, path) ==
    IF ~file.stat_ok THEN [err |-> TRUE, reason |-> "stat"]
    ELSE IF file.size > (IF k = SourceAmazonQ THEN amazonQMaxFileSize ELSE maxFileSize) THEN [err |-> TRUE, reason |-> "too large"]
    ELSE IF ~file.read_ok THEN [err |-> TRUE, reason |-> "read"]
    ELSE IF ~file.json THEN [err |-> FALSE, session |-> Session("text", path, Now)]
    ELSE [err |-> FALSE,
          session |-> Session("session", path,
                              IF file.created_at # 0 THEN file.created_at ELSE Now)]

\* ClaudeCodeCollector.parseSessionFile: no size cap; the text fallback is
\* dated by the file's modification time.
claudeParseSessionFile(file, path) ==
    IF ~file.read_ok THEN [err |-> TRUE, reason |-> "read"]
    ELSE IF ~file.json
    THEN [err |-> FALSE,
          session |-> Session("text", path, IF file.stat_ok THEN file.mod_time ELSE Now)]
    ELSE [err |-> FALSE,
          session |-> Session("session", path,
                              IF file.created_at # 0 THEN file.created_at ELSE Now)]

\* ------------------------------------------------------------------ state
VARIABLES
    kind,         \* the collector under test
    req,          \* the *CollectionConfig passed to Collect (NilRequest or a record)
    cfg,          \* the collector's CLIToolConfig: which paths are set
    disk,         \* the file system
    ctxErr,       \* ctx.Err() of the context derived in Collect
    pc,           \* position of the Collect call
    allSessions,  \* Collect's shared record slice
    errs,         \* Collect's shared error slice
    logs,         \* what was passed to the logger
    hist,         \* the history goroutine
    aws,          \* the AWS-config goroutine (amazon_q)
    sessPc,       \* the session-directory goroutine (the collecting loop)
    fileChan, resultChan, errorChan,
    wg,           \* the pipeline's WaitGroup counter: workers not yet returned
    parsing,      \* the paths held by workers between receive and send
    feeder,       \* the goroutine sending the paths
    closer,       \* the goroutine closing the output channels
    sessions,     \* the collecting loop's records
    errors,       \* the collecting loop's errors
    walk,         \* the claude_code walk: next entry
    ret           \* what Collect returned

envVars == <<kind, req, cfg, disk>>
pipeVars == <<fileChan, resultChan, errorChan, wg, parsing, feeder, closer, sessions, errors>>
vars == <<kind, req, cfg, disk, ctxErr, pc, allSessions, errs, logs, hist, aws,
          sessPc, fileChan, resultChan, errorChan, wg, parsing, feeder, closer,
          sessions, errors, walk, ret>>

Chan(buf, closed) == [buf |-> buf, closed |-> closed, nil |-> FALSE]
NoChan == Chan(<<>>, FALSE)

DateRange(start, end) == [nil |-> FALSE, Start |-> start, End |-> end]

\* The ranges of the requests: none, or from EarlyTime to MidTime.
DateRanges == {NilRange, DateRange(EarlyTime, MidTime)}

Requests == {NilRequest} \cup {[nil |-> FALSE, DateRange |-> d] : d \in DateRanges}

\* The file systems: the configuration directory is missing, or it holds a
\* history file, a session directory and AWS configuration files with at
\* most MaxItems lines and files altogether.
Disks(k) ==
    { [configDir |-> FALSE, history |-> NoHistory, sessionDir |-> "notexist",
       files |-> <<>>, aws |-> {}] }
    \cup
    { d \in [configDir : {TRUE}, history : HistoryChoices(k),
             sessionDir : {"ok", "notexist", "walkerror"},
             files : SeqsUpTo(SessionFileChoices(k), MaxFiles),
             aws : SUBSET (1..min({MaxAwsFiles, AwsPathCount}))] :
        /\ d.sessionDir # "ok" => d.files = <<>>
        /\ Len(d.history.lines) + Len(d.files) + Cardinality(d.aws) <= MaxItems }

Init ==
    /\ kind \in Sources
    /\ req \in Requests
    /\ cfg \in [HistoryFile : BOOLEAN, SessionDir : BOOLEAN]
    /\ disk \in Disks(kind)
    /\ (~cfg.HistoryFile => disk.history = NoHistory)
    /\ (~cfg.SessionDir => disk.files = <<>> /\ disk.sessionDir = "notexist")
    /\ (kind # SourceAmazonQ => disk.aws = {})
    /\ ctxErr = NoErr
    /\ pc = "start"
    /\ allSessions = <<>>
    /\ errs = <<>>
    /\ logs = {}
    /\ hist = [pc |-> "off", lineNum |-> 0, sessions |-> <<>>]
    /\ aws = "off"
    /\ sessPc = "off"
    /\ fileChan = NoChan /\ resultChan = NoChan /\ errorChan = NoChan
    /\ wg = 0
    /\ parsing = {}
    /\ feeder = [pc |-> "off", i |-> 1]
    /\ closer = "off"
    /\ sessions = <<>>
    /\ errors = <<>>
    /\ walk = 0
    /\ ret = [sessions |-> <<>>, err |-> NoErr]

Concurrent == kind \in {SourceGeminiCLI, SourceAmazonQ}

\* ------------------------------------------------------------ the context
\* The caller cancels the context, or a deadline (the caller's or the 30 s
\* one Collect derives) expires, at any moment before Collect returns.
Cancel ==
    /\ pc # "done"
    /\ ctxErr = NoErr
    /\ \E e \in CtxErrors : ctxErr' = e
    /\ UNCHANGED <<envVars, pc, allSessions, errs, logs, hist, aws, sessPc, pipeVars, walk, ret>>

\* addError of Collect: append to the shared error slice under errMu.
addError(branch, err) == Append(errs, [branch |-> branch, err |-> err])

\* -------------------------------------------- Collect (gemini_cli, amazon_q)
\* validateConfigDirectory
validateConfigDirectory == IF disk.configDir THEN NoErr ELSE "config directory does not exist"

\* Collect up to wg.Wait(): the nil check, the configuration directory and
\* the go statements.
CollectStart ==
    /\ Concurrent
    /\ pc = "start"
    /\ IF req = NilRequest
       THEN /\ ret' = [sessions |-> <<>>, err |-> "collection config is nil"]
            /\ pc' = "done"
            /\ UNCHANGED <<hist, sessPc, aws, logs>>
       ELSE IF validateConfigDirectory # NoErr
       THEN /\ pc' = "done"
            /\ IF kind = SourceGeminiCLI
               THEN /\ ret' = [sessions |-> <<>>,
                               err |-> "config directory validation failed"]
                    /\ UNCHANGED logs
               ELSE /\ ret' = [sessions |-> generateDummyData, err |-> NoErr]
                    /\ logs' = logs \cup {<<"not found, returning dummy data">>}
            /\ UNCHANGED <<hist, sessPc, aws>>
       ELSE /\ pc' = "wait"
            /\ hist' = [hist EXCEPT !.pc = IF cfg.HistoryFile THEN "ready" ELSE "off"]
            /\ sessPc' = IF cfg.SessionDir THEN "ready" ELSE "off"
            /\ aws' = IF kind = SourceAmazonQ THEN "ready" ELSE "off"
            /\ UNCHANGED <<ret, logs>>
    /\ UNCHANGED <<envVars, ctxErr, allSessions, errs, pipeVars, walk>>

\* ------------------------------------------------------ history goroutine
\* collectFromHistoryWithRetry up to the scan loop: Stat, the size cap,
\* opening (gemini_cli) or reading (amazon_q) the file.
HistoryOpenErr ==
    LET h == disk.history
    IN  IF h.stat = "notexist"
        THEN IF kind = SourceAmazonQ THEN "empty" ELSE "failed to stat history file"
        ELSE IF h.stat # "ok" THEN "failed to stat history file"
        ELSE IF h.size > (IF kind = SourceAmazonQ THEN amazonQMaxFileSize ELSE maxFileSize)
        THEN "history file too large"
        ELSE IF ~h.read_ok THEN "failed to open history file"
        ELSE NoErr

HistoryStart ==
    /\ Concurrent
    /\ hist.pc = "ready"
    /\ IF HistoryOpenErr = NoErr
       THEN /\ hist' = [hist EXCEPT !.pc = "scan"]
            /\ UNCHANGED <<errs, allSessions>>
       ELSE IF HistoryOpenErr = "empty"
       THEN /\ hist' = [hist EXCEPT !.pc = "done"]
            /\ UNCHANGED <<errs, allSessions>>
       ELSE /\ hist' = [hist EXCEPT !.pc = "failed"]
            /\ errs' = addError("history", HistoryOpenErr)
            /\ UNCHANGED allSessions
    /\ UNCHANGED <<envVars, ctxErr, pc, logs, aws, sessPc, pipeVars, walk, ret>>

\* A scan loop without the cap on records.
HistoryScanNoCap ==
    /\ Concurrent
    /\ hist.pc = "scan"
    /\ LET lines == HistoryLines(kind, disk.history)
           n == hist.lineNum + 1
       IN  IF hist.lineNum >= Len(lines)
           THEN /\ hist' = [hist EXCEPT !.pc = "done"]
                /\ allSessions' = allSessions \o hist.sessions
                /\ UNCHANGED <<errs, logs>>
           ELSE IF ctxErr # NoErr
           THEN /\ hist' = [hist EXCEPT !.pc = "failed", !.sessions = <<>>]
                /\ errs' = addError("history", ctxErr)
                /\ UNCHANGED <<allSessions, logs>>
           ELSE LET line == lines[n]
                    parsed == parseHistoryLine(kind, line, n)
                IN  /\ IF line.form = "blank"
                       THEN /\ hist' = [hist EXCEPT !.lineNum = n]
                            /\ UNCHANGED logs
                       ELSE IF parsed.err
                       THEN /\ hist' = [hist EXCEPT !.lineNum = n]
                            /\ logs' = logs \cup {<<"Failed to parse history line", n>>}
                       ELSE /\ hist' = [hist EXCEPT !.lineNum = n,
                                            !.sessions = Append(@, parsed.session)]
                            /\ UNCHANGED logs
                    /\ UNCHANGED <<errs, allSessions>>
    /\ UNCHANGED <<envVars, ctxErr, pc, aws, sessPc, pipeVars, walk, ret>>

\* A scan loop that stops at the first line that fails to parse.
HistoryScanAbortOnBadLine ==
    /\ Concurrent
    /\ hist.pc = "scan"
    /\ LET lines == HistoryLines(kind, disk.history)
           n == hist.lineNum + 1
           cap == IF kind = SourceAmazonQ THEN amazonQMaxMessagesPerFile
                  ELSE maxMessagesPerFile
       IN  IF hist.lineNum >= Len(lines) \/ Len(hist.sessions) >= cap
           THEN /\ hist' = [hist EXCEPT !.pc = "done"]
                /\ allSessions' = allSessions \o hist.sessions
                /\ UNCHANGED <<errs, logs>>
           ELSE IF ctxErr # NoErr
           THEN /\ hist' = [hist EXCEPT !.pc = "failed", !.sessions = <<>>]
                /\ errs' = addError("history", ctxErr)
                /\ UNCHANGED <<allSessions, logs>>
           ELSE LET line == lines[n]
                    parsed == parseHistoryLine(kind, line, n)
                IN  /\ IF line.form = "blank"
                       THEN /\ hist' = [hist EXCEPT !.lineNum = n]
                            /\ UNCHANGED logs
                       ELSE IF parsed.err
                       THEN /\ hist' = [hist EXCEPT !.lineNum = Len(lines)]
                            /\ logs' = logs \cup {<<"Failed to parse history line", n>>}
                       ELSE /\ hist' = [hist EXCEPT !.lineNum = n,
                                            !.sessions = Append(@, parsed.session)]
                            /\ UNCHANGED logs
                    /\ UNCHANGED <<errs, allSessions>>
    /\ UNCHANGED <<envVars, ctxErr, pc, aws, sessPc, pipeVars, walk, ret>>

\* One turn of the scan loop of parseHistoryFileStreaming: the context
\* check, then the line; at the end of the file (or at the record cap) the
\* goroutine appends what it parsed to allSessions under mu.
HistoryScan ==
    /\ Concurrent
    /\ hist.pc = "scan"
    /\ LET lines == HistoryLines(kind, disk.history)
           n == hist.lineNum + 1
           cap == IF kind = SourceAmazonQ THEN amazonQMaxMessagesPerFile
                  ELSE maxMessagesPerFile
       IN  IF hist.lineNum >= Len(lines) \/ Len(hist.sessions) >= cap
           THEN /\ hist' = [hist EXCEPT !.pc = "done"]
                /\ allSessions' = allSessions \o hist.sessions
                /\ UNCHANGED <<errs, logs>>
           ELSE IF ctxErr # NoErr
           THEN /\ hist' = [hist EXCEPT !.pc = "failed", !.sessions = <<>>]
                /\ errs' = addError("history", ctxErr)
                /\ UNCHANGED <<allSessions, logs>>
           ELSE LET line == lines[n]
                    parsed == parseHistoryLine(kind, line, n)
                IN  /\ IF line.form = "blank"
                       THEN /\ hist' = [hist EXCEPT !.lineNum = n]
                            /\ UNCHANGED logs
                       ELSE IF parsed.err
                       THEN /\ hist' = [hist EXCEPT !.lineNum = n]
                            /\ logs' = logs \cup {<<"Failed to parse history line", n>>}
                       ELSE /\ hist' = [hist EXCEPT !.lineNum = n,
                                            !.sessions = Append(@, parsed.session)]
                            /\ UNCHANGED logs
                    /\ UNCHANGED <<errs, allSessions>>
    /\ UNCHANGED <<envVars, ctxErr, pc, aws, sessPc, pipeVars, walk, ret>>

\* ----------------------------------------- session-directory goroutine
\* The paths WalkDir hands to the callback that pass the name filter, in
\* walk order; a path is the file's position in the directory.
filePaths == [i \in 1..Len(disk.files) |-> i]

\* The outcome of the walk (and, for amazon_q, of the Stat before it).
WalkErr ==
    IF disk.sessionDir = "notexist"
    THEN IF kind = SourceAmazonQ THEN "empty" ELSE "failed to walk session directory"
    ELSE IF disk.sessionDir = "walkerror" THEN "failed to walk session directory"
    ELSE NoErr

\* runtime.NumCPU(): NumCPU, unless the environment names another count.
HardwareThreads == IF "cpus" \in DOMAIN disk THEN disk.cpus ELSE NumCPU

\* The loop of min and of minInts over their arguments.
RECURSIVE minLoop(_, _)
minLoop(a, result) ==
    IF a = <<>> THEN result
    ELSE minLoop(Tail(a), IF Head(a) < result THEN Head(a) ELSE result)

minArgs(a) == IF Len(a) = 0 THEN 0 ELSE minLoop(Tail(a), a[1])

\* A worker count that leaves out the cap on workers.
workerCountUncapped(k, fileCount, cpus) == minArgs(<<fileCount, cpus>>)

workerCount(k, fileCount, cpus) ==
    IF k = SourceAmazonQ
    THEN minArgs(<<amazonQMaxWorkers, fileCount, cpus>>)
    ELSE minArgs(<<maxWorkers, fileCount, cpus>>)

numWorkers == workerCount(kind, Len(filePaths), HardwareThreads)

\* collectFromSessionDirConcurrent up to the collecting loop: the walk, the
\* worker count, the channels and the go statements.
SessionStart ==
    /\ Concurrent
    /\ sessPc = "ready"
    /\ IF WalkErr \notin {NoErr, "empty"}
       THEN /\ sessPc' = "failed"
            /\ errs' = addError("session", WalkErr)
            /\ UNCHANGED <<allSessions, pipeVars>>
       ELSE IF WalkErr = "empty" \/ numWorkers = 0
       THEN /\ sessPc' = "done"
            /\ UNCHANGED <<errs, allSessions, pipeVars>>
       ELSE /\ sessPc' = "collect"
            /\ fileChan' = Chan(<<>>, FALSE)
            /\ resultChan' = Chan(<<>>, FALSE)
            /\ errorChan' = Chan(<<>>, FALSE)
            /\ wg' = numWorkers
            /\ feeder' = [pc |-> "run", i |-> 1]
            /\ closer' = "wait"
            /\ UNCHANGED <<errs, allSessions, parsing, sessions, errors>>
    /\ UNCHANGED <<envVars, ctxErr, pc, logs, hist, aws, walk, ret>>

\* A feeder that sends the same path again instead of moving on.
FeederSendNoAdvance ==
    /\ feeder.pc = "run"
    /\ feeder.i <= Len(filePaths)
    /\ Len(fileChan.buf) < Len(filePaths)
    /\ fileChan' = [fileChan EXCEPT !.buf = Append(@, filePaths[feeder.i])]
    /\ feeder' = [feeder EXCEPT !.i = IF Len(fileChan.buf) = 0 THEN @ ELSE @ + 1]
    /\ UNCHANGED <<envVars, ctxErr, pc, allSessions, errs, logs, hist, aws, sessPc,
                   resultChan, errorChan, wg, parsing, closer, sessions, errors, walk, ret>>

\* The feeder: one turn of its loop.  The select takes either ready case.
FeederSend ==
    /\ feeder.pc = "run"
    /\ feeder.i <= Len(filePaths)
    /\ Len(fileChan.buf) < Len(filePaths)
    /\ fileChan' = [fileChan EXCEPT !.buf = Append(@, filePaths[feeder.i])]
    /\ feeder' = [feeder EXCEPT !.i = @ + 1]
    /\ UNCHANGED <<envVars, ctxErr, pc, allSessions, errs, logs, hist, aws, sessPc,
                   resultChan, errorChan, wg, parsing, closer, sessions, errors, walk, ret>>

\* The feeder returns, on ctx.Done() or after the last path; the deferred
\* close(fileChan) runs.
FeederClose ==
    /\ feeder.pc = "run"
    /\ feeder.i > Len(filePaths) \/ ctxErr # NoErr
    /\ fileChan' = [fileChan EXCEPT !.closed = TRUE]
    /\ feeder' = [feeder EXCEPT !.pc = "done"]
    /\ UNCHANGED <<envVars, ctxErr, pc, allSessions, errs, logs, hist, aws, sessPc,
                   resultChan, errorChan, wg, parsing, closer, sessions, errors, walk, ret>>

\* A worker that reads the head of fileChan without taking it off.
WorkerRecvPeek ==
    /\ wg - Cardinality(parsing) > 0
    /\ fileChan.buf # <<>>
    /\ Head(fileChan.buf) \notin parsing
    /\ parsing' = parsing \cup {Head(fileChan.buf)}
    /\ UNCHANGED fileChan
    /\ UNCHANGED <<envVars, ctxErr, pc, allSessions, errs, logs, hist, aws, sessPc,
                   resultChan, errorChan, wg, feeder, closer, sessions, errors, walk, ret>>

\* sessionFileWorker: the select receives a path.
WorkerRecv ==
    /\ wg - Cardinality(parsing) > 0
    /\ fileChan.buf # <<>>
    /\ parsing' = parsing \cup {Head(fileChan.buf)}
    /\ fileChan' = [fileChan EXCEPT !.buf = Tail(@)]
    /\ UNCHANGED <<envVars, ctxErr, pc, allSessions, errs, logs, hist, aws, sessPc,
                   resultChan, errorChan, wg, feeder, closer, sessions, errors, walk, ret>>

\* A worker whose record is lost when another worker is parsing at the
\* same moment.
WorkerParseRacy ==
    \E path \in parsing :
        LET parsed == parseSessionFileSafe(kind, disk.files[path], path)
        IN  /\ parsing' = parsing \ {path}
            /\ IF parsed.err
               THEN /\ Len(errorChan.buf) < Len(filePaths)
                    /\ ~errorChan.closed
                    /\ errorChan' = [errorChan EXCEPT
                                        !.buf = Append(@, [path |-> path, err |-> parsed.reason])]
                    /\ UNCHANGED resultChan
               ELSE /\ Len(resultChan.buf) < Len(filePaths)
                    /\ ~resultChan.closed
                    /\ resultChan' = IF Cardinality(parsing) > 1 THEN resultChan
                                     ELSE [resultChan EXCEPT !.buf = Append(@, parsed.session)]
                    /\ UNCHANGED errorChan
            /\ UNCHANGED <<envVars, ctxErr, pc, allSessions, errs, logs, hist, aws, sessPc,
                           fileChan, wg, feeder, closer, sessions, errors, walk, ret>>

\* sessionFileWorker: parseSessionFileSafe, then the send on errorChan or
\* resultChan, then back to the select.
WorkerParse ==
    \E path \in parsing :
        LET parsed == parseSessionFileSafe(kind, disk.files[path], path)
        IN  /\ parsing' = parsing \ {path}
            /\ IF parsed.err
               THEN /\ Len(errorChan.buf) < Len(filePaths)
                    /\ ~errorChan.closed
                    /\ errorChan' = [errorChan EXCEPT
                                        !.buf = Append(@, [path |-> path, err |-> parsed.reason])]
                    /\ UNCHANGED resultChan
               ELSE /\ Len(resultChan.buf) < Len(filePaths)
                    /\ ~resultChan.closed
                    /\ resultChan' = [resultChan EXCEPT !.buf = Append(@, parsed.session)]
                    /\ UNCHANGED errorChan
            /\ UNCHANGED <<envVars, ctxErr, pc, allSessions, errs, logs, hist, aws, sessPc,
                           fileChan, wg, feeder, closer, sessions, errors, walk, ret>>

\* A worker that returns only when the context is done, not when fileChan
\* is closed.
WorkerExitOnlyOnCancel ==
    /\ wg - Cardinality(parsing) > 0
    /\ ctxErr # NoErr
    /\ wg' = wg - 1
    /\ UNCHANGED <<envVars, ctxErr, pc, allSessions, errs, logs, hist, aws, sessPc,
                   fileChan, resultChan, errorChan, parsing, feeder, closer, sessions,
                   errors, walk, ret>>

\* sessionFileWorker returns (deferred wg.Done()): fileChan is closed and
\* drained, or the select takes ctx.Done().
WorkerExit ==
    /\ wg - Cardinality(parsing) > 0
    /\ (fileChan.closed /\ fileChan.buf = <<>>) \/ ctxErr # NoErr
    /\ wg' = wg - 1
    /\ UNCHANGED <<envVars, ctxErr, pc, allSessions, errs, logs, hist, aws, sessPc,
                   fileChan, resultChan, errorChan, parsing, feeder, closer, sessions,
                   errors, walk, ret>>

\* A closer that does not wait for the workers.
CloserCloseResultNoWait ==
    /\ closer = "wait"
    /\ resultChan' = [resultChan EXCEPT !.closed = TRUE]
    /\ closer' = "closing"
    /\ UNCHANGED <<envVars, ctxErr, pc, allSessions, errs, logs, hist, aws, sessPc,
                   fileChan, errorChan, wg, parsing, feeder, sessions, errors, walk, ret>>

\* The closer: wg.Wait() returns, close(resultChan).
CloserCloseResult ==
    /\ closer = "wait"
    /\ wg = 0
    /\ resultChan' = [resultChan EXCEPT !.closed = TRUE]
    /\ closer' = "closing"
    /\ UNCHANGED <<envVars, ctxErr, pc, allSessions, errs, logs, hist, aws, sessPc,
                   fileChan, errorChan, wg, parsing, feeder, sessions, errors, walk, ret>>

\* The closer: close(errorChan).
CloserCloseError ==
    /\ closer = "closing"
    /\ errorChan' = [errorChan EXCEPT !.closed = TRUE]
    /\ closer' = "done"
    /\ UNCHANGED <<envVars, ctxErr, pc, allSessions, errs, logs, hist, aws, sessPc,
                   fileChan, resultChan, wg, parsing, feeder, sessions, errors, walk, ret>>

\* A hand-over without the mutex: the append starts from the empty slice
\* it read before another goroutine appended.
LoopEndLostAppend(rc, ec, ss, es) ==
    /\ resultChan' = rc
    /\ errorChan' = ec
    /\ sessions' = ss
    /\ errors' = es
    /\ IF rc.nil /\ ec.nil
       THEN /\ sessPc' = "done"
            /\ logs' = logs \cup {<<"Session file processing error", es[i].path>> :
                                     i \in 1..Len(es)}
            /\ allSessions' = ss
       ELSE UNCHANGED <<sessPc, logs, allSessions>>

\* The end of a turn of the collecting loop: with both channels nil the
\* loop breaks, the per-file errors are logged, the pipeline returns its
\* records and the goroutine appends them to allSessions under mu.
LoopEnd(rc, ec, ss, es) ==
    /\ resultChan' = rc
    /\ errorChan' = ec
    /\ sessions' = ss
    /\ errors' = es
    /\ IF rc.nil /\ ec.nil
       THEN /\ sessPc' = "done"
            /\ logs' = logs \cup {<<"Session file processing error", es[i].path>> :
                                     i \in 1..Len(es)}
            /\ allSessions' = allSessions \o ss
       ELSE UNCHANGED <<sessPc, logs, allSessions>>

\* The collecting loop's select takes the resultChan case.
CollectResult ==
    /\ sessPc = "collect"
    /\ ~resultChan.nil
    /\ resultChan.buf # <<>> \/ resultChan.closed
    /\ IF resultChan.buf # <<>>
       THEN LoopEnd([resultChan EXCEPT !.buf = Tail(@)], errorChan,
                    Append(sessions, Head(resultChan.buf)), errors)
       ELSE LoopEnd([resultChan EXCEPT !.nil = TRUE], errorChan, sessions, errors)
    /\ UNCHANGED <<envVars, ctxErr, pc, errs, hist, aws, fileChan, wg, parsing, feeder,
                   closer, walk, ret>>

\* The collecting loop's select takes the errorChan case.
CollectError ==
    /\ sessPc = "collect"
    /\ ~errorChan.nil
    /\ errorChan.buf # <<>> \/ errorChan.closed
    /\ IF errorChan.buf # <<>>
       THEN LoopEnd(resultChan, [errorChan EXCEPT !.buf = Tail(@)],
                    sessions, Append(errors, Head(errorChan.buf)))
       ELSE LoopEnd(resultChan, [errorChan EXCEPT !.nil = TRUE], sessions, errors)
    /\ UNCHANGED <<envVars, ctxErr, pc, errs, hist, aws, fileChan, wg, parsing, feeder,
                   closer, walk, ret>>

\* The collecting loop's select takes ctx.Done(): the pipeline returns
\* (nil, ctx.Err()) and the goroutine records the error.
CollectCtxDone ==
    /\ sessPc = "collect"
    /\ ctxErr # NoErr
    /\ sessPc' = "failed"
    /\ errs' = addError("session", ctxErr)
    /\ UNCHANGED <<envVars, ctxErr, pc, allSessions, logs, hist, aws, pipeVars, walk, ret>>

\* --------------------------------------------- AWS goroutine (amazon_q)
\* A session made from an AWS configuration file.
awsSession(i) == Session("aws_config", i, Now)

RECURSIVE awsSessions(_, _)
awsSessions(i, acc) ==
    IF i > AwsPathCount THEN acc
    ELSE awsSessions(i + 1, IF i \in disk.aws THEN Append(acc, awsSession(i)) ELSE acc)

\* collectFromAWSConfig and the append of its records.  The loop checks the
\* context before each of the four paths and keeps no state another
\* goroutine reads, so it is one step.
AwsCollect ==
    /\ aws = "ready"
    /\ IF ctxErr # NoErr
       THEN /\ aws' = "failed"
            /\ errs' = addError("aws", ctxErr)
            /\ UNCHANGED allSessions
       ELSE /\ aws' = "done"
            /\ allSessions' = allSessions \o awsSessions(1, <<>>)
            /\ UNCHANGED errs
    /\ UNCHANGED <<envVars, ctxErr, pc, logs, hist, sessPc, pipeVars, walk, ret>>

\* ------------------------------------------------------- Collect returns
Finished(p) == p \in {"off", "done", "failed"}

\* A Collect that adds the placeholder records to whatever was collected.
CollectFinishAlwaysDummy ==
    /\ Concurrent
    /\ pc = "wait"
    /\ Finished(hist.pc) /\ Finished(sessPc) /\ Finished(aws)
    /\ LET merged == IF kind = SourceAmazonQ
                     THEN allSessions \o generateDummyData
                     ELSE allSessions
       IN  /\ ret' = [sessions |-> IF req.DateRange # NilRange
                                   THEN filterByDateRange(kind, merged, req.DateRange)
                                   ELSE merged,
                      err |-> NoErr]
           /\ logs' = logs \cup {<<"Collection warning", errs[i].branch>> : i \in 1..Len(errs)}
                           \cup (IF kind = SourceAmazonQ /\ Len(allSessions) = 0
                                 THEN {<<"generating dummy data">>} ELSE {})
    /\ pc' = "done"
    /\ UNCHANGED <<envVars, ctxErr, allSessions, errs, hist, aws, sessPc, pipeVars, walk>>

\* A Collect that gives up when a branch failed.
CollectFinishAbortOnError ==
    /\ Concurrent
    /\ pc = "wait"
    /\ Finished(hist.pc) /\ Finished(sessPc) /\ Finished(aws)
    /\ LET merged == IF errs # <<>> THEN <<>>
                     ELSE IF kind = SourceAmazonQ /\ Len(allSessions) = 0
                     THEN generateDummyData
                     ELSE allSessions
       IN  ret' = [sessions |-> IF req.DateRange # NilRange
                                THEN filterByDateRange(kind, merged, req.DateRange)
                                ELSE merged,
                   err |-> NoErr]
    /\ logs' = logs \cup {<<"Collection warning", errs[i].branch>> : i \in 1..Len(errs)}
    /\ pc' = "done"
    /\ UNCHANGED <<envVars, ctxErr, allSessions, errs, hist, aws, sessPc, pipeVars, walk>>

\* wg.Wait() returns: the warnings, the fallback of amazon_q, the date
\* filter and the return.
CollectFinish ==
    /\ Concurrent
    /\ pc = "wait"
    /\ Finished(hist.pc) /\ Finished(sessPc) /\ Finished(aws)
    /\ LET merged == IF kind = SourceAmazonQ /\ Len(allSessions) = 0
                     THEN generateDummyData
                     ELSE allSessions
       IN  /\ ret' = [sessions |-> IF req.DateRange # NilRange
                                   THEN filterByDateRange(kind, merged, req.DateRange)
                                   ELSE merged,
                      err |-> NoErr]
           /\ logs' = logs \cup {<<"Collection warning", errs[i].branch>> : i \in 1..Len(errs)}
                           \cup (IF kind = SourceAmazonQ /\ Len(allSessions) = 0
                                 THEN {<<"generating dummy data">>} ELSE {})
    /\ pc' = "done"
    /\ UNCHANGED <<envVars, ctxErr, allSessions, errs, hist, aws, sessPc, pipeVars, walk>>

\* ------------------------------------------------ Collect (claude_code)
\* What a nil *CollectionConfig does at collectConfig.DateRange.
Panic == "panic: nil pointer dereference"

\* The end of ClaudeCodeCollector.Collect: the date filter and the return.
ClaudeReturn(merged) ==
    /\ pc' = "done"
    /\ ret' = IF req.nil
              THEN [sessions |-> <<>>, err |-> Panic]
              ELSE [sessions |-> IF req.DateRange # NilRange
                                 THEN filterByDateRange(kind, merged, req.DateRange)
                                 ELSE merged,
                    err |-> NoErr]

\* Collect up to the history file: the context check and the
\* configuration directory.
ClaudeStart ==
    /\ kind = SourceClaudeCode
    /\ pc = "start"
    /\ IF ctxErr # NoErr
       THEN /\ pc' = "done"
            /\ ret' = [sessions |-> <<>>, err |-> ctxErr]
       ELSE IF ~disk.configDir
       THEN /\ pc' = "done"
            /\ ret' = [sessions |-> <<>>, err |-> "config directory does not exist"]
       ELSE /\ pc' = "history"
            /\ UNCHANGED ret
    /\ UNCHANGED <<envVars, ctxErr, allSessions, errs, logs, hist, aws, sessPc, pipeVars, walk>>

\* json.Unmarshal of the whole history file into a map, then
\* parseHistoryData: the file must be one JSON object, and its "sessions"
\* array gives the records.
claudeHistoryObjects(history) ==
    SelectSeq(history.lines, LAMBDA l : l.form # "blank")

claudeParseHistoryFile(h) ==
    LET objs == claudeHistoryObjects(h)
    IN  IF h.stat = "notexist" THEN [err |-> "history file does not exist", sessions |-> <<>>]
        ELSE IF ~h.read_ok THEN [err |-> "failed to read history file", sessions |-> <<>>]
        ELSE IF Len(objs) # 1 \/ ~HasBracePrefix(objs[1]) \/ objs[1].form = "badjson"
        THEN [err |-> "failed to parse history file", sessions |-> <<>>]
        ELSE IF objs[1].form = "json_sessions"
        THEN [err |-> NoErr,
              sessions |-> << Session("history", 1,
                                      IF objs[1].timestamp # 0 THEN objs[1].timestamp ELSE Now) >>]
        ELSE [err |-> NoErr, sessions |-> <<>>]

\* collectFromHistory: the context check, then the file.
claudeCollectFromHistory ==
    IF ctxErr # NoErr THEN [err |-> ctxErr, sessions |-> <<>>]
    ELSE claudeParseHistoryFile(disk.history)

\* The history step of Collect: a failure is printed and Collect goes on.
ClaudeHistory ==
    /\ kind = SourceClaudeCode
    /\ pc = "history"
    /\ pc' = "check"
    /\ IF cfg.HistoryFile
       THEN LET got == claudeCollectFromHistory
            IN  IF got.err # NoErr
                THEN /\ logs' = logs \cup {<<"history collection failed", got.err>>}
                     /\ UNCHANGED allSessions
                ELSE /\ allSessions' = allSessions \o got.sessions
                     /\ UNCHANGED logs
       ELSE UNCHANGED <<allSessions, logs>>
    /\ UNCHANGED <<envVars, ctxErr, errs, hist, aws, sessPc, pipeVars, walk, ret>>

\* The second context check of Collect, then collectFromSessionDir up to
\* the walk.
ClaudeCheck ==
    /\ kind = SourceClaudeCode
    /\ pc = "check"
    /\ IF ctxErr # NoErr
       THEN /\ pc' = "done"
            /\ ret' = [sessions |-> <<>>, err |-> ctxErr]
            /\ UNCHANGED <<logs, walk>>
       ELSE IF ~cfg.SessionDir
       THEN /\ ClaudeReturn(allSessions)
            /\ UNCHANGED <<logs, walk>>
       ELSE IF disk.sessionDir = "notexist"
       THEN /\ ClaudeReturn(allSessions)
            /\ logs' = logs \cup {<<"session directory collection failed", "does not exist">>}
            /\ UNCHANGED walk
       ELSE /\ pc' = "walk"
            /\ walk' = 0
            /\ UNCHANGED <<ret, logs>>
    /\ UNCHANGED <<envVars, ctxErr, allSessions, errs, hist, aws, sessPc, pipeVars>>

\* The entry at which the walk meets its error: the directory itself (0),
\* unless the environment names a later entry.
WalkFailsAt == IF "failAt" \in DOMAIN disk THEN disk.failAt ELSE 0

WalkFails == disk.sessionDir = "walkerror" /\ walk >= WalkFailsAt

\* A walk that, on its error, still returns what it parsed before.
ClaudeWalkKeepsDiscovered ==
    /\ kind = SourceClaudeCode
    /\ pc = "walk"
    /\ IF WalkFails \/ (ctxErr # NoErr /\ walk <= Len(disk.files))
       THEN /\ ClaudeReturn(allSessions \o sessions)
            /\ logs' = logs \cup {<<"session directory collection failed",
                                     IF WalkFails THEN "walk" ELSE ctxErr>>}
            /\ UNCHANGED <<allSessions, sessions, walk>>
       ELSE IF walk > Len(disk.files)
       THEN /\ ClaudeReturn(allSessions \o sessions)
            /\ allSessions' = allSessions \o sessions
            /\ UNCHANGED <<sessions, logs, walk>>
       ELSE /\ walk' = walk + 1
            /\ IF walk = 0
               THEN UNCHANGED <<sessions, logs>>
               ELSE LET parsed == claudeParseSessionFile(disk.files[walk], walk)
                    IN  IF parsed.err
                        THEN /\ logs' = logs \cup {<<"session file parse failed", walk>>}
                             /\ UNCHANGED sessions
                        ELSE /\ sessions' = Append(sessions, parsed.session)
                             /\ UNCHANGED logs
            /\ UNCHANGED <<pc, ret, allSessions>>
    /\ UNCHANGED <<envVars, ctxErr, errs, hist, aws, sessPc, fileChan, resultChan,
                   errorChan, wg, parsing, feeder, closer, errors>>

\* One call of the filepath.Walk callback: entry 0 is the directory itself,
\* entries 1.. are its files.  After the last entry the walk returns and
\* Collect appends, filters and returns.
ClaudeWalk ==
    /\ kind = SourceClaudeCode
    /\ pc = "walk"
    /\ IF WalkFails \/ (ctxErr # NoErr /\ walk <= Len(disk.files))
       THEN /\ ClaudeReturn(allSessions)
            /\ logs' = logs \cup {<<"session directory collection failed",
                                     IF WalkFails THEN "walk" ELSE ctxErr>>}
            /\ UNCHANGED <<allSessions, sessions, walk>>
       ELSE IF walk > Len(disk.files)
       THEN /\ ClaudeReturn(allSessions \o sessions)
            /\ allSessions' = allSessions \o sessions
            /\ UNCHANGED <<sessions, logs, walk>>
       ELSE /\ walk' = walk + 1
            /\ IF walk = 0
               THEN UNCHANGED <<sessions, logs>>
               ELSE LET parsed == claudeParseSessionFile(disk.files[walk], walk)
                    IN  IF parsed.err
                        THEN /\ logs' = logs \cup {<<"session file parse failed", walk>>}
                             /\ UNCHANGED sessions
                        ELSE /\ sessions' = Append(sessions, parsed.session)
                             /\ UNCHANGED logs
            /\ UNCHANGED <<pc, ret, allSessions>>
    /\ UNCHANGED <<envVars, ctxErr, errs, hist, aws, sessPc, fileChan, resultChan,
                   errorChan, wg, parsing, feeder, closer, errors>>

Next ==
    \/ Cancel
    \/ CollectStart
    \/ HistoryStart
    \/ HistoryScan
    \/ SessionStart
    \/ FeederSend
    \/ FeederClose
    \/ WorkerRecv
    \/ WorkerParse
    \/ WorkerExit
    \/ CloserCloseResult
    \/ CloserCloseError
    \/ CollectResult
    \/ CollectError
    \/ CollectCtxDone
    \/ AwsCollect
    \/ CollectFinish
    \/ ClaudeStart
    \/ ClaudeHistory
    \/ ClaudeCheck
    \/ ClaudeWalk

Spec == Init /\ [][Next]_vars

\* ------------------------------------------- the filter on its own
\* The inputs of filterByDateRange: up to MaxRecords records with
\* timestamps before, at and after MidTime, and every range over these
\* times and the zero time.
TimeChoices == {EarlyTime, MidTime, LateTime}

FilterInputs ==
    { [i \in 1..Len(ts) |-> Session("input", i, ts[i])] :
        ts \in SeqsUpTo(TimeChoices, MaxRecords) }

AllDateRanges ==
    {NilRange} \cup {DateRange(st, en) : st \in {0} \cup TimeChoices, en \in {0} \cup TimeChoices}

FilterInit ==
    /\ kind \in Sources
    /\ req \in {[nil |-> FALSE, DateRange |-> d] : d \in AllDateRanges}
    /\ cfg = [HistoryFile |-> FALSE, SessionDir |-> FALSE]
    /\ disk = [configDir |-> TRUE, history |-> NoHistory, sessionDir |-> "notexist",
               files |-> <<>>, aws |-> {}]
    /\ ctxErr = NoErr
    /\ pc = "filter"
    /\ allSessions \in FilterInputs
    /\ errs = <<>>
    /\ logs = {}
    /\ hist = [pc |-> "off", lineNum |-> 0, sessions |-> <<>>]
    /\ aws = "off"
    /\ sessPc = "off"
    /\ fileChan = NoChan /\ resultChan = NoChan /\ errorChan = NoChan
    /\ wg = 0
    /\ parsing = {}
    /\ feeder = [pc |-> "off", i |-> 1]
    /\ closer = "off"
    /\ sessions = <<>>
    /\ errors = <<>>
    /\ walk = 0
    /\ ret = [sessions |-> <<>>, err |-> NoErr]

\* The call filterByDateRange(allSessions, collectConfig.DateRange) of the
\* collector kind.
FilterApply ==
    /\ pc = "filter"
    /\ pc' = "done"
    /\ ret' = [sessions |-> filterByDateRange(kind, allSessions, req.DateRange), err |-> NoErr]
    /\ UNCHANGED <<envVars, ctxErr, allSessions, errs, logs, hist, aws, sessPc, pipeVars, walk>>

FilterNext == FilterApply

SpecFilter == FilterInit /\ [][FilterNext]_vars

\* ------------------------------------------------ the orchestrator
\* A merge step that drops a failed source without a trace.
handleCollectionResultSilent(source, collected, err) ==
    IF err # NoErr
    THEN [Sessions |-> <<>>, Errors |-> <<>>]
    ELSE [Sessions |-> collected, Errors |-> <<>>]

\* handleCollectionResult: what one source's Collect adds to the
\* CollectionResult.
handleCollectionResult(source, collected, err) ==
    IF err # NoErr
    THEN [Sessions |-> <<>>, Errors |-> << <<"source collection failed", source, err>> >>]
    ELSE [Sessions |-> collected, Errors |-> <<>>]

\* ------------------------------------------------------------- properties
Done == pc = "done"

\* ts lies in the inclusive range dr; a zero bound is no bound.
InsideRange(ts, dr) ==
    /\ dr.Start = 0 \/ dr.Start <= ts
    /\ dr.End = 0 \/ ts <= dr.End

\* The request's range admits the record (no range admits all).
Admitted(r) == req.DateRange = NilRange \/ InsideRange(r.ts, req.DateRange)

\* A branch of the call returned the context's error.
Interrupted ==
    \/ \E i \in 1..Len(errs) : errs[i].err \in CtxErrors
    \/ \E e \in CtxErrors : <<"session directory collection failed", e>> \in logs
    \/ \E e \in CtxErrors : <<"history collection failed", e>> \in logs

\* C1: for gemini_cli and amazon_q, a Collect whose context was cancelled
\* or timed out while a branch was collecting returns the context's error.
C1_CancelledCollectReturnsCtxErr ==
    (Done /\ Concurrent /\ Interrupted) => ret.err = ctxErr

\* C2: after a cancellation or timeout interrupted a branch, Collect
\* returns no records, even when another branch had merged its records.
C2_NoRecordsAfterCancellation ==
    (Done /\ Interrupted) => ret.sessions = <<>>

\* C3: for each collector, a Collect whose configuration directory does not
\* exist returns a nil error and a non-empty set of synthetic records.
C3_MissingConfigDirFallsBack ==
    (Done /\ ~req.nil /\ ~disk.configDir /\ ctxErr = NoErr) =>
        /\ ret.err = NoErr
        /\ ret.sessions # <<>>
        /\ \A r \in Range(ret.sessions) : IsDummy(r)

\* C4: a Collect that returns a nil error returns at least one record.
C4_NilErrorMeansRecords ==
    (Done /\ ret.err = NoErr) => Len(ret.sessions) >= 1

\* C5: when the request carries a date range and Collect returns a nil
\* error, every returned record lies inside the inclusive range.
C5_ReturnedRecordsInsideRange ==
    (Done /\ ret.err = NoErr /\ ~req.nil /\ req.DateRange # NilRange) =>
        \A r \in Range(ret.sessions) : InsideRange(r.ts, req.DateRange)

\* C6: filterByDateRange returns, in the input order, exactly the records
\* inside the inclusive range (a zero bound is no bound); a nil or all-zero
\* range returns the input; the three implementations agree.
C6_FilterIsInclusiveSelection ==
    (pc = "done") =>
        LET dr == req.DateRange
            expected == IF dr = NilRange THEN allSessions
                        ELSE SelectSeq(allSessions, LAMBDA r : InsideRange(r.ts, dr))
        IN  /\ ret.sessions = expected
            /\ geminiFilterByDateRange(allSessions, dr) = expected
            /\ amazonQFilterByDateRange(allSessions, dr) = expected
            /\ claudeFilterByDateRange(allSessions, dr) = expected
            /\ (dr = NilRange \/ (dr.Start = 0 /\ dr.End = 0)) => ret.sessions = allSessions

\* A filter call with Start = End = MidTime over MaxRecords records that
\* kept the one record dated MidTime and dropped the others.
C6_Witness ==
    /\ pc = "done"
    /\ req.DateRange # NilRange
    /\ req.DateRange.Start = MidTime /\ req.DateRange.End = MidTime
    /\ Len(allSessions) = MaxRecords
    /\ Len(ret.sessions) = 1
    /\ allSessions[2].ts = MidTime

\* C7: the only non-nil errors of Collect are the nil-request error and the
\* context's error.
C7_OnlyNilRequestAndCtxErrors ==
    (Done /\ ret.err # NoErr) =>
        \/ req.nil /\ ret.err = "collection config is nil"
        \/ ret.err \in CtxErrors

\* C8: for each collector, Collect(ctx, nil) returns a non-nil error and no
\* records and starts no branch.
C8_NilRequestRejected ==
    (Done /\ req.nil) =>
        /\ ret.err \notin {NoErr, Panic}
        /\ ret.sessions = <<>>
        /\ hist.pc = "off" /\ sessPc = "off" /\ aws = "off"
        /\ allSessions = <<>> /\ logs = {}

\* What the branches find on the disk, whatever the schedule.
parseFile(i) ==
    IF kind = SourceClaudeCode
    THEN claudeParseSessionFile(disk.files[i], i)
    ELSE parseSessionFileSafe(kind, disk.files[i], i)

ValidFiles == {i \in 1..Len(disk.files) : ~parseFile(i).err}
FailingFiles == {i \in 1..Len(disk.files) : parseFile(i).err}

ExpectedSessions == {parseFile(i).session : i \in ValidFiles}

ExpectedHistory ==
    IF kind = SourceClaudeCode
    THEN Range(claudeParseHistoryFile(disk.history).sessions)
    ELSE LET lines == HistoryLines(kind, disk.history)
         IN  { parseHistoryLine(kind, lines[n], n).session :
                 n \in { m \in 1..Len(lines) :
                            /\ lines[m].form # "blank"
                            /\ ~parseHistoryLine(kind, lines[m], m).err } }

ExpectedAws == Range(awsSessions(1, <<>>))

HistoryReadable ==
    /\ cfg.HistoryFile
    /\ IF kind = SourceClaudeCode
       THEN claudeParseHistoryFile(disk.history).err = NoErr
       ELSE HistoryOpenErr \in {NoErr, "empty"}

SessionDirReadable ==
    /\ cfg.SessionDir
    /\ IF kind = SourceClaudeCode THEN disk.sessionDir = "ok" ELSE WalkErr \in {NoErr, "empty"}

\* The branch ran to its end without an error.
HistoryBranchOk ==
    IF Concurrent THEN hist.pc = "done"
    ELSE cfg.HistoryFile /\ ~\E l \in logs : l[1] = "history collection failed"

SessionBranchOk ==
    IF Concurrent THEN sessPc = "done"
    ELSE cfg.SessionDir /\ ~\E l \in logs : l[1] = "session directory collection failed"

\* The records a branch handed to Collect.
HistoryBranchRecords == IF Concurrent THEN Range(hist.sessions) ELSE ExpectedHistory
SessionBranchRecords == Range(sessions)

Returned(S) == \A r \in S : Admitted(r) => r \in Range(ret.sessions)

\* C9: when Collect returns its records (nil error), every branch that ran
\* to its end without error has all its records (those the request's date
\* range admits) in the result; without cancellation a readable branch
\* completes with everything its files hold, whatever happened to the other
\* branch; a failed branch is in the error slice and every entry of the
\* error slice is logged.
C9_BranchFailureIsIsolated ==
    (Done /\ ret.err = NoErr /\ ~req.nil /\ disk.configDir) =>
        /\ HistoryBranchOk => Returned(HistoryBranchRecords)
        /\ SessionBranchOk => Returned(SessionBranchRecords)
        /\ aws = "done" => Returned(ExpectedAws)
        /\ ctxErr = NoErr =>
              /\ HistoryReadable => HistoryBranchOk /\ Returned(ExpectedHistory)
              /\ SessionDirReadable => SessionBranchOk /\ Returned(ExpectedSessions)
        /\ Concurrent =>
              /\ hist.pc = "failed" => \E i \in 1..Len(errs) : errs[i].branch = "history"
              /\ sessPc = "failed" => \E i \in 1..Len(errs) : errs[i].branch = "session"
              /\ \A i \in 1..Len(errs) : <<"Collection warning", errs[i].branch>> \in logs

\* gemini_cli: the history branch failed, the session branch completed and
\* its two records were returned.
C9_Witness ==
    /\ Done
    /\ kind = SourceGeminiCLI
    /\ ctxErr = NoErr
    /\ hist.pc = "failed"
    /\ sessPc = "done"
    /\ Cardinality(ExpectedSessions) = 2
    /\ ExpectedSessions \subseteq Range(ret.sessions)
    /\ <<"Collection warning", "history">> \in logs

\* C10: with N >= 1 valid session files and one failing file (no date range,
\* no cancellation), the N valid records are returned, the result's error
\* list holds exactly one entry, for the failing file, and the result is
\* not empty.
C10_FailingFileIsReported ==
    (/\ Done /\ ~req.nil /\ req.DateRange = NilRange /\ ctxErr = NoErr
     /\ cfg.SessionDir /\ disk.sessionDir = "ok"
     /\ Cardinality(FailingFiles) = 1 /\ Cardinality(ValidFiles) >= 1) =>
        LET result == handleCollectionResult(kind, ret.sessions, ret.err)
        IN  /\ ExpectedSessions \subseteq Range(result.Sessions)
            /\ Len(result.Errors) = 1
            /\ result.Sessions # <<>>

\* ------------------------------------------------------- the size cap
HundredMB == 100 * 1024 * 1024

OversizedFiles == {i \in 1..Len(disk.files) : disk.files[i].size > HundredMB}

\* The returned records that come from session file i / from the history.
FromFile(i) == {r \in Range(ret.sessions) : r.source_type \in {"session", "text"} /\ r.idx = i}
FromHistory == {r \in Range(ret.sessions) : r.source_type \in {"history", "history_text"}}

AtRest ==
    /\ req = [nil |-> FALSE, DateRange |-> NilRange]
    /\ cfg = [HistoryFile |-> FALSE, SessionDir |-> FALSE]
    /\ ctxErr = NoErr
    /\ allSessions = <<>>
    /\ errs = <<>>
    /\ logs = {}
    /\ hist = [pc |-> "off", lineNum |-> 0, sessions |-> <<>>]
    /\ aws = "off"
    /\ sessPc = "off"
    /\ fileChan = NoChan /\ resultChan = NoChan /\ errorChan = NoChan
    /\ wg = 0
    /\ parsing = {}
    /\ feeder = [pc |-> "off", i |-> 1]
    /\ closer = "off"
    /\ sessions = <<>>
    /\ errors = <<>>
    /\ walk = 0

\* File contents: empty, plain text, a cut-off object, a JSON array and a
\* JSON object.  json.Unmarshal into a struct or a map accepts the last only.
FileContents == {"", "plain notes", "{\"id\":", "[1,2]", "{\"id\":\"s1\"}"}

DecodesAsObject(content) == content = "{\"id\":\"s1\"}"

FileSizes == {1, maxFileSize, maxFileSize + 1}

ContentFile(statOk, size, readOk, content) ==
    [stat_ok |-> statOk, size |-> size, read_ok |-> readOk,
     json |-> DecodesAsObject(content), created_at |-> 0, mod_time |-> MidTime,
     content |-> content]

ContentFiles ==
    { ContentFile(st, sz, rd, c) :
        st \in BOOLEAN, sz \in FileSizes, rd \in BOOLEAN, c \in FileContents }

Message(role, content) == [Role |-> role, Content |-> content]

\* A text record that drops the file's text.
parseTextSessionNoContent(k, content, path) ==
    [Source |-> k,
     Messages |-> << Message(IF k = SourceClaudeCode THEN "content" ELSE "user", "") >>,
     file_path |-> path]

\* parseTextSession of the three collectors: one message whose Content is
\* the text handed in.
parseTextSession(k, content, path) ==
    [Source |-> k,
     Messages |-> << Message(IF k = SourceClaudeCode THEN "content" ELSE "user", content) >>,
     file_path |-> path]

\* The record built from a decoded object without a messages field.
convertSessionToModel(k, content, path) ==
    [Source |-> k, Messages |-> <<>>, file_path |-> path]

\* parseSessionFileSafe / parseSessionFile with the record's messages.
parseSessionFileRecord(k, file, path) ==
    LET base == IF k = SourceClaudeCode
                THEN claudeParseSessionFile(file, path)
                ELSE parseSessionFileSafe(k, file, path)
    IN  IF base.err THEN [err |-> TRUE, reason |-> base.reason]
        ELSE IF base.session.source_type = "text"
        THEN [err |-> FALSE, session |-> parseTextSession(k, file.content, path)]
        ELSE [err |-> FALSE, session |-> convertSessionToModel(k, file.content, path)]

SessionFileInit ==
    /\ kind \in Sources
    /\ disk \in { [configDir |-> TRUE, history |-> NoHistory, sessionDir |-> "ok",
                   files |-> <<f>>, aws |-> {}] : f \in ContentFiles }
    /\ pc = "parse"
    /\ ret = [err |-> FALSE, reason |-> "not called"]
    /\ AtRest

\* One call of the session-file parser on the file.
SessionFileParse ==
    /\ pc = "parse"
    /\ pc' = "parsed"
    /\ ret' = parseSessionFileRecord(kind, disk.files[1], 1)
    /\ UNCHANGED <<envVars, ctxErr, allSessions, errs, logs, hist, aws, sessPc, pipeVars, walk>>

SessionFileNext == SessionFileParse

SpecSessionFile == SessionFileInit /\ [][SessionFileNext]_vars

\* The file can be read and is within the collector's cap (claude_code
\* has none).
ReadableWithinCap(k, file) ==
    /\ file.read_ok
    /\ k # SourceClaudeCode => file.stat_ok /\ file.size <= HundredMB

\* C12: a readable session file within the cap whose content does not
\* decode gives no error and exactly one record, whose only message holds
\* the whole file text.
C12_UndecodableFileBecomesTextRecord ==
    (/\ pc = "parsed"
     /\ ReadableWithinCap(kind, disk.files[1])
     /\ ~DecodesAsObject(disk.files[1].content)) =>
        /\ ~ret.err
        /\ Len(ret.session.Messages) = 1
        /\ ret.session.Messages[1].Content = disk.files[1].content

\* A cut-off JSON object of exactly the cap's size, parsed by amazon_q.
C12_Witness ==
    /\ pc = "parsed"
    /\ kind = SourceAmazonQ
    /\ disk.files[1].size = HundredMB
    /\ disk.files[1].content = "{\"id\":"
    /\ ReadableWithinCap(kind, disk.files[1])
    /\ ~ret.err
    /\ ret.session.Messages = << Message("user", "{\"id\":") >>

\* ----------------------------------------------------- placeholder records
SyntheticReturned == \E i \in 1..Len(ret.sessions) : IsDummy(ret.sessions[i])

\* C13: when the returned set holds a placeholder record, the configuration
\* directory is missing or the strategies together appended no record, and
\* every returned record is a placeholder.
C13_SyntheticOnlyAsFallback ==
    (Done /\ ret.err = NoErr /\ SyntheticReturned) =>
        /\ \A i \in 1..Len(ret.sessions) : IsDummy(ret.sessions[i])
        /\ ~disk.configDir \/ Len(allSessions) = 0

\* amazon_q with its directory present: the history branch failed, nothing
\* was collected, and the three placeholders are the result.
C13_Witness ==
    /\ Done /\ kind = SourceAmazonQ /\ disk.configDir
    /\ hist.pc = "failed"
    /\ Len(allSessions) = 0
    /\ ret.sessions = generateDummyData

\* ------------------------------------------------------- the strategies
\* The record was made from the history file or from a session file.
FromConfiguredPaths(r) == r.source_type \in {"history", "history_text", "session", "text"}

\* C14: every returned record that is not a placeholder was made from the
\* configured history file or from a file of the configured session
\* directory.
C14_OnlyTwoStrategies ==
    (Done /\ ret.err = NoErr) =>
        \A i \in 1..Len(ret.sessions) :
            IsDummy(ret.sessions[i]) \/ FromConfiguredPaths(ret.sessions[i])

\* ------------------------------------ the streaming parser on its own
MaxHistoryLines == 3

\* Every form of line: blank, plain text, a '{'-line that does not decode,
\* a history entry, and an entry with a field the schema does not have.
AllLineChoices ==
    { BlankLine, Line("text", 0), Line("badjson", 0), Line("json", EarlyTime),
      Line("json_unknown_field", EarlyTime) }

\* The history goroutine of a gemini_cli or amazon_q Collect on a file within
\* the size cap; the branches beside it are off.
HistoryInit ==
    /\ kind \in {SourceGeminiCLI, SourceAmazonQ}
    /\ req = [nil |-> FALSE, DateRange |-> NilRange]
    /\ cfg = [HistoryFile |-> TRUE, SessionDir |-> FALSE]
    /\ disk \in { [configDir |-> TRUE, history |-> History("ok", 1, TRUE, ls),
                   sessionDir |-> "notexist", files |-> <<>>, aws |-> {}] :
                  ls \in SeqsUpTo(AllLineChoices, MaxHistoryLines) }
    /\ ctxErr = NoErr
    /\ pc = "wait"
    /\ allSessions = <<>>
    /\ errs = <<>>
    /\ logs = {}
    /\ hist = [pc |-> "ready", lineNum |-> 0, sessions |-> <<>>]
    /\ aws = "off"
    /\ sessPc = "off"
    /\ fileChan = NoChan /\ resultChan = NoChan /\ errorChan = NoChan
    /\ wg = 0
    /\ parsing = {}
    /\ feeder = [pc |-> "off", i |-> 1]
    /\ closer = "off"
    /\ sessions = <<>>
    /\ errors = <<>>
    /\ walk = 0
    /\ ret = [sessions |-> <<>>, err |-> NoErr]

HistoryNext ==
    \/ Cancel
    \/ HistoryStart
    \/ HistoryScan

SpecHistory == HistoryInit /\ [][HistoryNext]_vars

\* The cap on records per file of collector k.
RecordCap(k) == IF k = SourceAmazonQ THEN amazonQMaxMessagesPerFile ELSE maxMessagesPerFile

\* The line is one the claim gives a record: not blank and either without
\* the '{' prefix or accepted by the collector's decoder.
GivesRecord(k, line, n) ==
    /\ line.form # "blank"
    /\ ~HasBracePrefix(line) \/ ~parseHistoryLine(k, line, n).err

RECURSIVE RecordsOfLines(_, _, _)
RecordsOfLines(k, lines, n) ==
    IF n > Len(lines) THEN <<>>
    ELSE (IF GivesRecord(k, lines[n], n)
          THEN <<parseHistoryLine(k, lines[n], n).session>> ELSE <<>>)
         \o RecordsOfLines(k, lines, n + 1)

CapTail == 4

\* The lines of a file that reaches the cap: text lines up to two short of
\* the cap, then a tail of lines of any form.
LongLines(k, tail) ==
    [i \in 1..(RecordCap(k) - 2 + Len(tail)) |->
        IF i <= RecordCap(k) - 2 THEN Line("text", 0) ELSE tail[i - (RecordCap(k) - 2)]]

TailLineChoices == { BlankLine, Line("text", 0), Line("badjson", 0) }

LongHistories(k) ==
    { History("ok", 1, TRUE, LongLines(k, tail)) : tail \in [1..CapTail -> TailLineChoices] }

\* What the scan loop holds after the text lines 1..n: one record a line.
ParsedTextLines(n) == [i \in 1..n |-> parseTextHistoryEntry(Line("text", 0), i)]

\* The scan loop of a gemini_cli or amazon_q history goroutine two records
\* short of the cap, the file's tail still to be read.
HistoryCapInit ==
    /\ kind \in {SourceGeminiCLI, SourceAmazonQ}
    /\ req = [nil |-> FALSE, DateRange |-> NilRange]
    /\ cfg = [HistoryFile |-> TRUE, SessionDir |-> FALSE]
    /\ disk \in { [configDir |-> TRUE, history |-> h,
                   sessionDir |-> "notexist", files |-> <<>>, aws |-> {}] :
                  h \in LongHistories(kind) }
    /\ ctxErr = NoErr
    /\ pc = "wait"
    /\ allSessions = <<>>
    /\ errs = <<>>
    /\ logs = {}
    /\ hist = [pc |-> "scan", lineNum |-> RecordCap(kind) - 2,
               sessions |-> ParsedTextLines(RecordCap(kind) - 2)]
    /\ aws = "off"
    /\ sessPc = "off"
    /\ fileChan = NoChan /\ resultChan = NoChan /\ errorChan = NoChan
    /\ wg = 0
    /\ parsing = {}
    /\ feeder = [pc |-> "off", i |-> 1]
    /\ closer = "off"
    /\ sessions = <<>>
    /\ errors = <<>>
    /\ walk = 0
    /\ ret = [sessions |-> <<>>, err |-> NoErr]

HistoryCapNext == HistoryScan

SpecHistoryCap == HistoryCapInit /\ [][HistoryCapNext]_vars

\* The lines of the file that give a record.
GoodLines ==
    LET lines == HistoryLines(kind, disk.history)
    IN  {n \in 1..Len(lines) : GivesRecord(kind, lines[n], n)}

\* C16: the streaming parser never holds more than 10,000 records of one
\* file.  When it returns from a file with at least 10,000 good lines it
\* returns exactly 10,000 records and no error, the last record is of the
\* last line it examined, and no later line was examined (none is logged);
\* from a file with fewer good lines it returns one record per good line
\* after examining every line.
C16_RecordCapStopsParsing ==
    /\ Len(hist.sessions) <= 10000
    /\ Len(allSessions) <= 10000
    /\ hist.pc = "done" =>
          /\ allSessions = hist.sessions
          /\ errs = <<>>
          /\ IF Cardinality(GoodLines) >= 10000
             THEN /\ Len(hist.sessions) = 10000
                  /\ hist.sessions[10000].idx = hist.lineNum
                  /\ \A n \in (hist.lineNum + 1)..Len(disk.history.lines) :
                         <<"Failed to parse history line", n>> \notin logs
             ELSE /\ Len(hist.sessions) = Cardinality(GoodLines)
                  /\ hist.lineNum = Len(disk.history.lines)

\* The parser returned at the cap; the next line is malformed and was not
\* examined.
C16_Witness ==
    /\ hist.pc = "done"
    /\ Len(allSessions) = 10000
    /\ hist.lineNum = 10000
    /\ disk.history.lines[10001].form = "badjson"
    /\ logs = {}

\* ------------------------------------------------- strict line decoding
\* C17: when the streaming parser returns, a '{'-line holding a field the
\* line schema does not have gave no record and was logged as a line that
\* failed to parse.
C17_UnknownFieldLineRejected ==
    hist.pc = "done" =>
        \A n \in 1..Len(disk.history.lines) :
            disk.history.lines[n].form = "json_unknown_field" =>
                /\ ~\E i \in 1..Len(hist.sessions) : hist.sessions[i].idx = n
                /\ <<"Failed to parse history line", n>> \in logs

\* ---------------------------------------------------- the source registry
MaxRegisters == 3

\* Constructors that can be registered and configuration values that can be
\* handed to GetCollector.
Constructors == {"NewClaudeCodeCollector", "NewGeminiCLICollector"}
CollectorConfigs == {"configA", "configB"}

\* The package-level map `registry`: a function from the registered sources
\* to their constructors.
EmptyRegistry == [s \in {} |-> "none"]

NilCollector == [nil |-> TRUE, ctor |-> "none", config |-> "none"]

\* constructor(config)
Construct(ctor, config) == [nil |-> FALSE, ctor |-> ctor, config |-> config]

\* The orders in which a range over a map can visit its keys.
Orders(S) ==
    { f \in [1..Cardinality(S) -> S] : \A i, j \in 1..Cardinality(S) : i # j => f[i] # f[j] }

RegistryInit ==
    /\ kind = "registry"
    /\ disk = [registry |-> EmptyRegistry, calls |-> <<>>]
    /\ pc = "init"
    /\ ret = [op |-> "none"]
    /\ AtRest

\* A Register that does not replace a constructor already registered.
RegisterKeepFirst(source, constructor) ==
    /\ Len(disk.calls) < MaxRegisters
    /\ disk' = [registry |->
                  [s \in DOMAIN disk.registry \cup {source} |->
                      IF s \in DOMAIN disk.registry THEN disk.registry[s] ELSE constructor],
                calls |-> Append(disk.calls, [source |-> source, constructor |-> constructor])]
    /\ ret' = [op |-> "Register"]
    /\ UNCHANGED <<kind, req, cfg, ctxErr, pc, allSessions, errs, logs, hist, aws, sessPc, pipeVars, walk>>

\* Register: registry[source] = constructor.  disk.calls keeps the calls made.
Register(source, constructor) ==
    /\ Len(disk.calls) < MaxRegisters
    /\ disk' = [registry |->
                  [s \in DOMAIN disk.registry \cup {source} |->
                      IF s = source THEN constructor ELSE disk.registry[s]],
                calls |-> Append(disk.calls, [source |-> source, constructor |-> constructor])]
    /\ ret' = [op |-> "Register"]
    /\ UNCHANGED <<kind, req, cfg, ctxErr, pc, allSessions, errs, logs, hist, aws, sessPc, pipeVars, walk>>

GetCollector(source, config) ==
    /\ ret' = IF source \in DOMAIN disk.registry
              THEN [op |-> "GetCollector", source |-> source, config |-> config,
                    collector |-> Construct(disk.registry[source], config), err |-> NoErr]
              ELSE [op |-> "GetCollector", source |-> source, config |-> config,
                    collector |-> NilCollector, err |-> "no collector registered for source"]
    /\ UNCHANGED <<envVars, ctxErr, pc, allSessions, errs, logs, hist, aws, sessPc, pipeVars, walk>>

ListRegisteredSources ==
    /\ \E order \in Orders(DOMAIN disk.registry) :
           ret' = [op |-> "ListRegisteredSources", sources |-> order]
    /\ UNCHANGED <<envVars, ctxErr, pc, allSessions, errs, logs, hist, aws, sessPc, pipeVars, walk>>

IsRegistered(source) ==
    /\ ret' = [op |-> "IsRegistered", source |-> source, ok |-> source \in DOMAIN disk.registry]
    /\ UNCHANGED <<envVars, ctxErr, pc, allSessions, errs, logs, hist, aws, sessPc, pipeVars, walk>>

RegistryNext ==
    \/ \E source \in Sources, constructor \in Constructors : Register(source, constructor)
    \/ \E source \in Sources, config \in CollectorConfigs : GetCollector(source, config)
    \/ ListRegisteredSources
    \/ \E source \in Sources : IsRegistered(source)

SpecRegistry == RegistryInit /\ [][RegistryNext]_vars

\* The Register calls made for a source, and the constructor of the last.
RegisterCalls(source) == {i \in 1..Len(disk.calls) : disk.calls[i].source = source}
LastRegistered(source) ==
    disk.calls[CHOOSE i \in RegisterCalls(source) : \A j \in RegisterCalls(source) : j <= i].constructor

\* C18: after any sequence of Register calls, GetCollector returns an error
\* exactly when no Register call named the source, and otherwise the
\* collector the most recently registered constructor builds from the
\* configuration; ListRegisteredSources returns each registered source once
\* and nothing else; IsRegistered tells whether a call named the source;
\* the three lookups leave the registry as it was.
C18_RegistryLookups ==
    /\ [](/\ ret.op = "GetCollector" =>
               /\ ret.err # NoErr <=> RegisterCalls(ret.source) = {}
               /\ ret.err # NoErr => ret.collector = NilCollector
               /\ ret.err = NoErr =>
                      ret.collector = Construct(LastRegistered(ret.source), ret.config)
          /\ ret.op = "ListRegisteredSources" =>
               /\ Range(ret.sources) = {disk.calls[i].source : i \in 1..Len(disk.calls)}
               /\ Len(ret.sources) = Cardinality(Range(ret.sources))
          /\ ret.op = "IsRegistered" => (ret.ok <=> RegisterCalls(ret.source) # {}))
    /\ [][ret'.op \in {"GetCollector", "ListRegisteredSources", "IsRegistered"} =>
              disk'.registry = disk.registry]_vars

\* A source registered twice with different constructors, then looked up.
C18_Witness ==
    /\ ret.op = "GetCollector"
    /\ ret.err = NoErr
    /\ Cardinality(RegisterCalls(ret.source)) = 2
    /\ disk.calls[1].source = ret.source
    /\ disk.calls[1].constructor # LastRegistered(ret.source)
    /\ ret.collector.ctor = LastRegistered(ret.source)

\* ------------------------------------------------ the three orchestrators
MaxSources == 2
MaxCollected == 1

CollectServiceExecute == "CollectService.Execute"
CollectAllSources == "CollectAllSources"
CmdExecuteCollection == "cmd.executeCollection"
Orchestrators == {CollectServiceExecute, CollectAllSources, CmdExecuteCollection}

\* The sources a request can name: the three known ones and one no
\* collector exists for.
UnknownSource == "unknown_source"
RequestedSources == Sources \cup {UnknownSource}

\* The records a Collect call returns: n records of the source.
Collected(source, n) == [j \in 1..n |-> Session(source, j, Now)]

\* What Collect can return: records with a nil error, or no records and an
\* error.
CollectOutcomes(source) ==
    { [sessions |-> Collected(source, n), err |-> NoErr] : n \in 0..MaxCollected }
    \cup { [sessions |-> <<>>, err |-> "collect failed"] }

NotCalled == [sessions |-> <<>>, err |-> "not called"]

\* The placeholder session cmd's collect<Source>Data returns when Collect
\* fails.
FallbackSession(source) == Session("fallback", source, Now - 1)

\* The source resolves to a collector: the orchestrator has a
\* configuration for it and can build its collector.
Resolves(k, source) ==
    IF k = CmdExecuteCollection
    THEN source \in Sources /\ ~cfg.nil
    ELSE source \in cfg.sources /\ source \in disk.registered

\* CollectService.collectFromSource and the body of CollectAllSources' loop
\* up to the merge: configuration, GetCollector, Collect.
serviceCollectFromSource(source, out) ==
    IF source \notin cfg.sources THEN [sessions |-> <<>>, err |-> "no configuration for source"]
    ELSE IF source \notin disk.registered
    THEN [sessions |-> <<>>, err |-> "no collector registered for source"]
    ELSE IF out.err # NoErr THEN [sessions |-> <<>>, err |-> out.err]
    ELSE [sessions |-> out.sessions, err |-> NoErr]

\* cmd's collectFromSource and collect<Source>Data: the switch, LoadConfig,
\* Collect, and the placeholder when Collect fails.
cmdCollectFromSource(source, out) ==
    IF source \notin Sources THEN [sessions |-> <<>>, err |-> "unsupported source"]
    ELSE IF cfg.nil THEN [sessions |-> <<>>, err |-> "failed to load configuration"]
    ELSE IF out.err # NoErr THEN [sessions |-> <<FallbackSession(source)>>, err |-> NoErr]
    ELSE [sessions |-> out.sessions, err |-> NoErr]

collectFromSource(k, source, out) ==
    IF k = CmdExecuteCollection THEN cmdCollectFromSource(source, out)
    ELSE serviceCollectFromSource(source, out)

\* A finalisation that counts the requested sources.
finalizeCountsSources(result) == [result EXCEPT !.TotalCount = Len(req.Sources)]

\* finalizeCollectionResult, and the same assignment at the end of
\* CollectAllSources and of cmd's executeCollection.
finalizeCollectionResult(result) == [result EXCEPT !.TotalCount = Len(result.Sessions)]

\* initializeCollectionResult; CollectAllSources starts with no sources and
\* appends those it collected.
initializeCollectionResult(k) ==
    [nil |-> FALSE,
     Sources |-> IF k = CollectAllSources THEN <<>> ELSE req.Sources,
     Sessions |-> <<>>, Errors |-> <<>>, TotalCount |-> 0, err |-> NoErr]

NilResult(err) ==
    [nil |-> TRUE, Sources |-> <<>>, Sessions |-> <<>>, Errors |-> <<>>,
     TotalCount |-> 0, err |-> err]

\* The configurations an orchestrator can have: CollectService has all
\* three or no configuration at all, CollectAllSources is handed any map,
\* cmd loads the configuration file or fails to.
OrchConfigs(k) ==
    IF k = CollectAllSources
    THEN { [nil |-> FALSE, sources |-> S] : S \in SUBSET RequestedSources }
    ELSE { [nil |-> n, sources |-> Sources] : n \in BOOLEAN }

OrchInit ==
    /\ kind \in Orchestrators
    /\ req \in { [nil |-> FALSE, DateRange |-> NilRange, Sources |-> ss] :
                   ss \in SeqsUpTo(RequestedSources, MaxSources) }
    /\ cfg \in OrchConfigs(kind)
    /\ disk \in { [registered |-> R] :
                   R \in IF kind = CmdExecuteCollection THEN {Sources} ELSE SUBSET Sources }
    /\ ctxErr = NoErr
    /\ pc = "start"
    /\ allSessions = <<>>
    /\ errs = <<>>
    /\ logs = <<>>
    /\ hist = [pc |-> "off", lineNum |-> 0, sessions |-> <<>>]
    /\ aws = "off"
    /\ sessPc = "off"
    /\ fileChan = NoChan /\ resultChan = NoChan /\ errorChan = NoChan
    /\ wg = 0
    /\ parsing = {}
    /\ feeder = [pc |-> "off", i |-> 1]
    /\ closer = "off"
    /\ sessions = <<>>
    /\ errors = <<>>
    /\ walk = 0
    /\ ret = NilResult("not returned")

\* Execute up to the loop: the result is initialised and CollectService
\* prepares its configurations, failing when it has none.
OrchStart ==
    /\ pc = "start"
    /\ IF kind = CollectServiceExecute /\ cfg.nil
       THEN /\ pc' = "done"
            /\ ret' = NilResult("failed to prepare configuration")
       ELSE /\ pc' = "loop"
            /\ ret' = initializeCollectionResult(kind)
    /\ UNCHANGED <<envVars, ctxErr, allSessions, errs, logs, hist, aws, sessPc, pipeVars, walk>>

\* An iteration that does not look at the context before its source.
OrchIterateNoCtxCheck ==
    /\ pc = "loop"
    /\ walk < Len(req.Sources)
    /\ LET source == req.Sources[walk + 1]
       IN  \E out \in IF Resolves(kind, source) THEN CollectOutcomes(source) ELSE {NotCalled} :
             LET got == collectFromSource(kind, source, out)
                 add == handleCollectionResult(source, got.sessions, got.err)
             IN  /\ ret' = [ret EXCEPT
                              !.Sessions = @ \o add.Sessions,
                              !.Errors = @ \o add.Errors,
                              !.Sources = IF kind = CollectAllSources /\ got.err = NoErr
                                          THEN Append(@, source) ELSE @]
                 /\ logs' = Append(logs, [source |-> source,
                                          resolved |-> Resolves(kind, source),
                                          out |-> out, got |-> got])
                 /\ walk' = walk + 1
                 /\ UNCHANGED pc
    /\ UNCHANGED <<envVars, ctxErr, allSessions, errs, hist, aws, sessPc, pipeVars>>

\* One iteration of the loop over the requested sources.  walk counts the
\* sources done; logs keeps, per iteration, the source, whether it resolved
\* to a collector, what Collect returned and what the iteration got.
OrchIterate ==
    /\ pc = "loop"
    /\ walk < Len(req.Sources)
    /\ IF kind = CollectServiceExecute /\ ctxErr # NoErr
       THEN /\ pc' = "done"
            /\ ret' = NilResult(ctxErr)
            /\ UNCHANGED <<walk, logs>>
       ELSE LET source == req.Sources[walk + 1]
            IN  \E out \in IF Resolves(kind, source) THEN CollectOutcomes(source) ELSE {NotCalled} :
                  LET got == collectFromSource(kind, source, out)
                      add == handleCollectionResult(source, got.sessions, got.err)
                  IN  /\ ret' = [ret EXCEPT
                                   !.Sessions = @ \o add.Sessions,
                                   !.Errors = @ \o add.Errors,
                                   !.Sources = IF kind = CollectAllSources /\ got.err = NoErr
                                               THEN Append(@, source) ELSE @]
                      /\ logs' = Append(logs, [source |-> source,
                                               resolved |-> Resolves(kind, source),
                                               out |-> out, got |-> got])
                      /\ walk' = walk + 1
                      /\ UNCHANGED pc
    /\ UNCHANGED <<envVars, ctxErr, allSessions, errs, hist, aws, sessPc, pipeVars>>

\* After the loop: the count is set and the result returned.
OrchFinish ==
    /\ pc = "loop"
    /\ walk = Len(req.Sources)
    /\ pc' = "done"
    /\ ret' = finalizeCollectionResult(ret)
    /\ UNCHANGED <<envVars, ctxErr, allSessions, errs, logs, hist, aws, sessPc, pipeVars, walk>>

OrchNext ==
    \/ Cancel
    \/ OrchStart
    \/ OrchIterate
    \/ OrchFinish

SpecOrch == OrchInit /\ [][OrchNext]_vars

\* A result was returned.
ResultReturned == pc = "done" /\ ~ret.nil

\* What C19 calls a failing source: unresolved, or its Collect failed.
FailedSource(p) == ~logs[p].resolved \/ logs[p].out.err # NoErr

\* The same, but for cmd's executeCollection a failed Collect is not a
\* failure of the source.
FailedSourceAmended(p) ==
    \/ ~logs[p].resolved
    \/ kind # CmdExecuteCollection /\ logs[p].out.err # NoErr

SourceErrors(source) == {i \in 1..Len(ret.Errors) : ret.Errors[i][2] = source}

RECURSIVE Contributions(_, _)
\* The sessions of the iterations p..Len(logs) when a failing iteration
\* contributes nothing and every other what its Collect returned.
Contributions(p, amended) ==
    IF p > Len(logs) THEN <<>>
    ELSE (IF amended
          THEN IF FailedSourceAmended(p) THEN <<>>
               ELSE IF logs[p].out.err # NoErr THEN <<FallbackSession(logs[p].source)>>
               ELSE logs[p].out.sessions
          ELSE IF FailedSource(p) THEN <<>> ELSE logs[p].out.sessions)
         \o Contributions(p + 1, amended)

\* C19: in a returned result, every requested source was attempted; each
\* source without configuration, without a registered collector or whose
\* Collect failed has exactly one entry in the error list and no session;
\* every other source's sessions are in the result.
C19_FailedSourceIsOneError ==
    ResultReturned =>
        /\ Len(logs) = Len(req.Sources)
        /\ Len(ret.Errors) = Cardinality({p \in 1..Len(logs) : FailedSource(p)})
        /\ \A s \in RequestedSources :
               Cardinality(SourceErrors(s)) =
                   Cardinality({p \in 1..Len(logs) : logs[p].source = s /\ FailedSource(p)})
        /\ ret.Sessions = Contributions(1, FALSE)

\* C19 amended: as C19, except that in cmd's executeCollection a source
\* whose Collect fails has no entry in the error list and contributes the
\* one placeholder session.
C19_FailedSourceIsOneErrorAmended ==
    ResultReturned =>
        /\ Len(logs) = Len(req.Sources)
        /\ \A p \in 1..Len(logs) : logs[p].source = req.Sources[p]
        /\ Len(ret.Errors) = Cardinality({p \in 1..Len(logs) : FailedSourceAmended(p)})
        /\ \A s \in RequestedSources :
               Cardinality(SourceErrors(s)) =
                   Cardinality({p \in 1..Len(logs) : logs[p].source = s /\ FailedSourceAmended(p)})
        /\ ret.Sessions = Contributions(1, TRUE)

\* CollectAllSources asked for an unregistered source and then for one
\* that is collected: one error, and the second source's session.
C19_Witness ==
    /\ ResultReturned
    /\ kind = CollectAllSources
    /\ Len(req.Sources) = 2
    /\ ~logs[1].resolved
    /\ logs[1].source \in cfg.sources /\ logs[1].source \notin disk.registered
    /\ logs[2].resolved /\ logs[2].out.err = NoErr
    /\ Len(ret.Errors) = 1
    /\ ret.Sessions = Collected(req.Sources[2], 1)

RECURSIVE SucceededCount(_)
\* The records returned by the per-source calls p..Len(logs) that
\* returned no error.
SucceededCount(p) ==
    IF p > Len(logs) THEN 0
    ELSE (IF logs[p].got.err = NoErr THEN Len(logs[p].got.sessions) ELSE 0)
         + SucceededCount(p + 1)

AttemptedSources == [p \in 1..Len(logs) |-> logs[p].source]

\* C21: the Sources of a returned result are the sources attempted, in
\* request order, those that failed included.
C21_SourcesAreTheAttempted ==
    ResultReturned =>
        /\ ret.Sources = AttemptedSources
        /\ AttemptedSources = req.Sources

\* ------------------------------------------------------------ idempotence
\* A record without its timestamp: what it was made from.  (Timestamps,
\* and the identifiers claude_code derives from the clock, default to the
\* time of the call.)
Normalized(r) == [source_type |-> r.source_type, idx |-> r.idx]

\* What the files give a Collect call that nothing cancels, before the
\* date filter: it depends on the collector and the files only.
FilesRecords ==
    (IF cfg.HistoryFile /\ (IF kind = SourceClaudeCode THEN TRUE ELSE HistoryOpenErr = NoErr)
     THEN ExpectedHistory ELSE {})
    \cup (IF cfg.SessionDir /\ (IF kind = SourceClaudeCode THEN disk.sessionDir = "ok"
                                ELSE WalkErr = NoErr)
          THEN ExpectedSessions ELSE {})
    \cup (IF kind = SourceAmazonQ THEN ExpectedAws ELSE {})

\* The same for the whole call: the placeholders of amazon_q when the
\* directory is missing (returned unfiltered) or nothing was found, and the
\* date filter.
ExpectedResult ==
    IF kind = SourceAmazonQ /\ ~disk.configDir THEN Range(generateDummyData)
    ELSE {r \in (IF kind = SourceAmazonQ /\ FilesRecords = {}
                 THEN Range(generateDummyData) ELSE FilesRecords) : Admitted(r)}

ScenarioFiles ==
    << File(TRUE, 1, TRUE, TRUE, EarlyTime), File(TRUE, 1, TRUE, FALSE, 0),
       File(TRUE, 1, TRUE, TRUE, EarlyTime), File(TRUE, 1, TRUE, TRUE, EarlyTime) >>

ScenarioHistory ==
    History("ok", 1, TRUE, << Line("json", EarlyTime), BlankLine, Line("json", EarlyTime) >>)

\* A gemini_cli or amazon_q Collect over that directory, no date range, no
\* AWS configuration file, nothing cancelled.
ScenarioInit ==
    /\ kind \in {SourceGeminiCLI, SourceAmazonQ}
    /\ req = [nil |-> FALSE, DateRange |-> NilRange]
    /\ cfg = [HistoryFile |-> TRUE, SessionDir |-> TRUE]
    /\ disk = [configDir |-> TRUE, history |-> ScenarioHistory, sessionDir |-> "ok",
               files |-> ScenarioFiles, aws |-> {}]
    /\ ctxErr = NoErr
    /\ pc = "start"
    /\ allSessions = <<>>
    /\ errs = <<>>
    /\ logs = {}
    /\ hist = [pc |-> "off", lineNum |-> 0, sessions |-> <<>>]
    /\ aws = "off"
    /\ sessPc = "off"
    /\ fileChan = NoChan /\ resultChan = NoChan /\ errorChan = NoChan
    /\ wg = 0
    /\ parsing = {}
    /\ feeder = [pc |-> "off", i |-> 1]
    /\ closer = "off"
    /\ sessions = <<>>
    /\ errors = <<>>
    /\ walk = 0
    /\ ret = [sessions |-> <<>>, err |-> NoErr]

ScenarioNext ==
    \/ CollectStart
    \/ HistoryStart
    \/ HistoryScan
    \/ SessionStart
    \/ FeederSend
    \/ FeederClose
    \/ WorkerRecv
    \/ WorkerParse
    \/ WorkerExit
    \/ CloserCloseResult
    \/ CloserCloseError
    \/ CollectResult
    \/ CollectError
    \/ AwsCollect
    \/ CollectFinish

SpecScenario == ScenarioInit /\ [][ScenarioNext]_vars

\* The error strings of a finished collection: the per-file errors of the
\* pipeline, the branch errors of Collect, and what the orchestrator's
\* merge step adds for the source.
ErrorStringCount ==
    Len(errors) + Len(errs) + Len(handleCollectionResult(kind, ret.sessions, ret.err).Errors)

\* C23: the mixed directory gives exactly 6 records, exactly 1 error
\* string and a nil error.
C23_ScenarioSixRecordsOneError ==
    Done =>
        /\ Len(ret.sessions) = 6
        /\ ErrorStringCount = 1
        /\ ret.err = NoErr

\* C23 amended: the mixed directory, collected by gemini_cli or by amazon_q
\* with no AWS configuration file, gives exactly 6 records (3 sessions, 1
\* text fallback, 2 history entries), no error string and a nil error.
C23_ScenarioSixRecordsNoError ==
    Done =>
        /\ Len(ret.sessions) = 6
        /\ Cardinality({r \in Range(ret.sessions) : r.source_type = "session"}) = 3
        /\ Cardinality({r \in Range(ret.sessions) : r.source_type = "text"}) = 1
        /\ Cardinality({r \in Range(ret.sessions) : r.source_type = "history"}) = 2
        /\ ErrorStringCount = 0
        /\ logs = {}
        /\ ret.err = NoErr

\* The collection of the mixed directory has returned; the file of invalid
\* JSON is among the records as text.
C23_Witness ==
    /\ Done
    /\ kind = SourceGeminiCLI
    /\ disk.files = ScenarioFiles /\ disk.history = ScenarioHistory
    /\ Session("text", 2, Now) \in Range(ret.sessions)
    /\ Len(ret.sessions) = 6

\* ------------------------------------------------- the collect command
\* The flags of the collect command: --all, --sources (at most
\* MaxFlagSources names), --from and --to.
MaxFlagSources == 2

InvalidSourceName == "invalid_source"
SourceNames == {"claude_code", "gemini_cli", "amazon_q", InvalidSourceName}

\* The switch of buildCollectionConfig: the source a name stands for.
sourceOfName(name) ==
    IF name = "claude_code" THEN SourceClaudeCode
    ELSE IF name = "gemini_cli" THEN SourceGeminiCLI
    ELSE SourceAmazonQ

DateFlags == {"", "2024-01-02", "invalid-date"}

\* time.Parse("2006-01-02", s).
parseDate(s) ==
    IF s = "2024-01-02" THEN [err |-> FALSE, t |-> EarlyTime] ELSE [err |-> TRUE, t |-> 0]

CollectFlags ==
    { [collectAll |-> a, collectSources |-> ss, collectDateFrom |-> f, collectDateTo |-> t] :
        a \in BOOLEAN, ss \in SeqsUpTo(SourceNames, MaxFlagSources),
        f \in DateFlags, t \in DateFlags }

ErrUnknownSource == "unknown data source"
ErrNoSources == "--all or --sources must be given"
ErrDateFrom == "start date format"
ErrDateTo == "end date format"
ErrLoadConfig == "load config"

NilConfig == [nil |-> TRUE, DateRange |-> NilRange, Sources |-> <<>>]

\* The date range part of buildCollectionConfig, applied to the sources
\* already chosen.
buildDateRange(flags, sources) ==
    IF flags.collectDateFrom = "" /\ flags.collectDateTo = ""
    THEN [cfg |-> [nil |-> FALSE, DateRange |-> NilRange, Sources |-> sources], err |-> NoErr]
    ELSE IF flags.collectDateFrom # "" /\ parseDate(flags.collectDateFrom).err
    THEN [cfg |-> NilConfig, err |-> ErrDateFrom]
    ELSE IF flags.collectDateTo # "" /\ parseDate(flags.collectDateTo).err
    THEN [cfg |-> NilConfig, err |-> ErrDateTo]
    ELSE [cfg |-> [nil |-> FALSE,
                   DateRange |-> DateRange(
                       IF flags.collectDateFrom # "" THEN parseDate(flags.collectDateFrom).t ELSE 0,
                       IF flags.collectDateTo # "" THEN parseDate(flags.collectDateTo).t + 23 ELSE 0),
                   Sources |-> sources],
          err |-> NoErr]

\* A buildCollectionConfig that accepts a command line naming no source.
buildCollectionConfigLenient(flags) ==
    IF flags.collectAll
    THEN buildDateRange(flags, <<SourceClaudeCode, SourceGeminiCLI, SourceAmazonQ>>)
    ELSE IF \E i \in 1..Len(flags.collectSources) : flags.collectSources[i] = InvalidSourceName
    THEN [cfg |-> NilConfig, err |-> ErrUnknownSource]
    ELSE buildDateRange(flags, [i \in 1..Len(flags.collectSources) |->
                                   sourceOfName(flags.collectSources[i])])

buildCollectionConfig(flags) ==
    IF flags.collectAll
    THEN buildDateRange(flags, <<SourceClaudeCode, SourceGeminiCLI, SourceAmazonQ>>)
    ELSE IF Len(flags.collectSources) > 0
    THEN IF \E i \in 1..Len(flags.collectSources) : flags.collectSources[i] \notin Sources
         THEN [cfg |-> NilConfig, err |-> ErrUnknownSource]
         ELSE buildDateRange(flags, [i \in 1..Len(flags.collectSources) |->
                                        sourceOfName(flags.collectSources[i])])
    ELSE [cfg |-> NilConfig, err |-> ErrNoSources]

\* The two command handlers and the orchestrator each hands the request to.
CmdOrchestrators == {CollectServiceExecute, CmdExecuteCollection}

CmdInit ==
    /\ kind \in CmdOrchestrators
    /\ req = NilConfig
    /\ cfg \in OrchConfigs(kind)
    /\ disk \in { [registered |-> R, loads |-> l, flags |-> f] :
                   R \in IF kind = CmdExecuteCollection THEN {Sources} ELSE SUBSET Sources,
                   l \in BOOLEAN, f \in CollectFlags }
    /\ ctxErr = NoErr
    /\ pc = "flags"
    /\ allSessions = <<>>
    /\ errs = <<>>
    /\ logs = <<>>
    /\ hist = [pc |-> "off", lineNum |-> 0, sessions |-> <<>>]
    /\ aws = "off"
    /\ sessPc = "off"
    /\ fileChan = NoChan /\ resultChan = NoChan /\ errorChan = NoChan
    /\ wg = 0
    /\ parsing = {}
    /\ feeder = [pc |-> "off", i |-> 1]
    /\ closer = "off"
    /\ sessions = <<>>
    /\ errors = <<>>
    /\ walk = 0
    /\ ret = NilResult("not returned")

\* runCollect and runCollectWithService up to the call of the orchestrator:
\* the configuration file is loaded, the request is built from the flags,
\* and either failure ends the command.
CmdBuild ==
    /\ pc = "flags"
    /\ IF ~disk.loads
       THEN /\ pc' = "done"
            /\ ret' = NilResult(ErrLoadConfig)
            /\ UNCHANGED req
       ELSE LET built == buildCollectionConfig(disk.flags)
            IN  IF built.err # NoErr
                THEN /\ pc' = "done"
                     /\ ret' = NilResult(built.err)
                     /\ UNCHANGED req
                ELSE /\ pc' = "start"
                     /\ req' = built.cfg
                     /\ UNCHANGED ret
    /\ UNCHANGED <<kind, cfg, disk, ctxErr, allSessions, errs, logs, hist, aws, sessPc, pipeVars, walk>>

CmdNext ==
    \/ Cancel
    \/ CmdBuild
    \/ OrchStart
    \/ OrchIterate
    \/ OrchFinish

SpecCmd == CmdInit /\ [][CmdNext]_vars

\* The request has reached an orchestrator.
ReachedCollection == pc \in {"start", "loop"} \/ (pc = "done" /\ ~req.nil)

NamesNoSource(flags) == ~flags.collectAll /\ flags.collectSources = <<>>

NamesUnknownSource(flags) ==
    ~flags.collectAll /\ \E i \in 1..Len(flags.collectSources) : flags.collectSources[i] = InvalidSourceName

\* C24: a command line with neither --all nor --sources, or with an unknown
\* source name, ends with an error and no configuration, and every request
\* that reaches collection names at least one source, all of them known.
C24_NoSourcesIsInvalid ==
    /\ (pc # "flags" /\ disk.loads /\ NamesNoSource(disk.flags)) =>
           /\ pc = "done" /\ req.nil /\ ret = NilResult(ErrNoSources)
           /\ buildCollectionConfig(disk.flags).cfg.nil
    /\ (pc # "flags" /\ disk.loads /\ NamesUnknownSource(disk.flags)) =>
           /\ pc = "done" /\ req.nil /\ ret = NilResult(ErrUnknownSource)
           /\ buildCollectionConfig(disk.flags).cfg.nil
    /\ ReachedCollection =>
           /\ ~req.nil
           /\ Len(req.Sources) > 0
           /\ \A i \in 1..Len(req.Sources) : req.Sources[i] \in Sources
    /\ logs # <<>> => ReachedCollection

\* A command line naming no source was refused.
C24_Witness ==
    /\ pc = "done"
    /\ disk.loads
    /\ NamesNoSource(disk.flags)
    /\ ret = NilResult(ErrNoSources)
    /\ logs = <<>>

\* --------------------------------------------------- the pipeline's runs
\* The pipeline is running: channels made, goroutines started, the
\* collecting loop not yet left.
PipelineStarted == closer # "off"

\* The outcomes the collecting loop has received.
Received == Len(sessions) + Len(errors)

\* C25: when the collecting loop ends under a cancelled context before it
\* has every file's outcome, the pipeline returns the context's error and
\* hands over no records; it never ends with a nil error and a part of
\* the records.
C25_CancelledPipelineReturnsNoRecords ==
    [][ (/\ sessPc = "collect"
         /\ sessPc' # "collect"
         /\ ctxErr # NoErr
         /\ Len(sessions') + Len(errors') < Len(filePaths))
        => (/\ sessPc' = "failed"
            /\ allSessions' = allSessions
            /\ errs' = addError("session", ctxErr)) ]_vars

\* Where the paths are: still in fileChan, with a worker, as an outcome in
\* an output channel, or as an outcome the collecting loop has received.
SeqCount(s, path) == Cardinality({i \in 1..Len(s) : s[i] = path})

InFileChan(path) == SeqCount(fileChan.buf, path)
WithWorker(path) == IF path \in parsing THEN 1 ELSE 0
RecordsOf(s, path) == Cardinality({i \in 1..Len(s) : s[i].idx = path})
ErrorsOf(s, path) == Cardinality({i \in 1..Len(s) : s[i].path = path})
OutcomesSent(path) == RecordsOf(resultChan.buf, path) + ErrorsOf(errorChan.buf, path)
OutcomesReceived(path) == RecordsOf(sessions, path) + ErrorsOf(errors, path)

Fed(path) == path < feeder.i

\* C26: without cancellation every path the feeder has sent is in exactly
\* one place (the input channel, a worker, or one outcome sent or
\* received) and no other path is anywhere; an outcome is a record exactly
\* when the file parses; and when the collecting loop ends it has received
\* exactly one outcome per file, N in all.
C26_EveryPathHasOneOutcome ==
    (PipelineStarted /\ ctxErr = NoErr) =>
        /\ \A path \in 1..Len(filePaths) :
              /\ InFileChan(path) + WithWorker(path) + OutcomesSent(path) + OutcomesReceived(path)
                    = IF Fed(path) THEN 1 ELSE 0
              /\ RecordsOf(resultChan.buf, path) + RecordsOf(sessions, path) > 0
                    => ~parseSessionFileSafe(kind, disk.files[path], path).err
              /\ ErrorsOf(errorChan.buf, path) + ErrorsOf(errors, path) > 0
                    => parseSessionFileSafe(kind, disk.files[path], path).err
        /\ Cardinality(parsing) <= wg
        /\ sessPc \in {"done", "failed"} =>
              /\ sessPc = "done"
              /\ Received = Len(filePaths)
              /\ \A path \in 1..Len(filePaths) : OutcomesReceived(path) = 1
              /\ resultChan.nil /\ errorChan.nil

\* An uncancelled run over two files with two workers has ended: one record
\* and one error were received.
C26_Witness ==
    /\ PipelineStarted
    /\ ctxErr = NoErr
    /\ sessPc = "done"
    /\ Len(filePaths) = 2
    /\ numWorkers = 2
    /\ Len(sessions) = 1 /\ Len(errors) = 1

\* ------------------------------------------- the pipeline on its own
\* Collect with only a session directory configured, holding up to
\* MaxPipelineFiles files that parse or are over the size cap: more files
\* than workers.
MaxPipelineFiles == 3

PipelineFileChoices ==
    { File(TRUE, 1, TRUE, TRUE, EarlyTime), File(TRUE, maxFileSize + 1, TRUE, TRUE, EarlyTime) }

PipelineInit ==
    /\ kind \in {SourceGeminiCLI, SourceAmazonQ}
    /\ req = [nil |-> FALSE, DateRange |-> NilRange]
    /\ cfg = [HistoryFile |-> FALSE, SessionDir |-> TRUE]
    /\ disk \in { [configDir |-> TRUE, history |-> NoHistory, sessionDir |-> "ok",
                   files |-> fs, aws |-> {}] :
                   fs \in SeqsUpTo(PipelineFileChoices, MaxPipelineFiles) }
    /\ ctxErr = NoErr
    /\ pc = "start"
    /\ allSessions = <<>>
    /\ errs = <<>>
    /\ logs = {}
    /\ hist = [pc |-> "off", lineNum |-> 0, sessions |-> <<>>]
    /\ aws = "off"
    /\ sessPc = "off"
    /\ fileChan = NoChan /\ resultChan = NoChan /\ errorChan = NoChan
    /\ wg = 0
    /\ parsing = {}
    /\ feeder = [pc |-> "off", i |-> 1]
    /\ closer = "off"
    /\ sessions = <<>>
    /\ errors = <<>>
    /\ walk = 0
    /\ ret = [sessions |-> <<>>, err |-> NoErr]

\* The steps of the feeder, of a worker, of the closer and of the
\* collecting loop.
FeederStep == FeederSend \/ FeederClose
WorkerStep == WorkerRecv \/ WorkerExit
CloserStep == CloserCloseResult \/ CloserCloseError
CollectingStep == CollectResult \/ CollectError \/ CollectCtxDone

PipelineNext ==
    \/ Cancel
    \/ CollectStart
    \/ SessionStart
    \/ FeederSend
    \/ FeederClose
    \/ WorkerRecv
    \/ WorkerParse
    \/ WorkerExit
    \/ CloserCloseResult
    \/ CloserCloseError
    \/ CollectResult
    \/ CollectError
    \/ CollectCtxDone
    \/ AwsCollect
    \/ CollectFinish

SpecPipeline == PipelineInit /\ [][PipelineNext]_vars

\* The Go scheduler: a goroutine that can take a step eventually takes
\* one.  Nothing obliges the caller to cancel.
SpecPipelineFair ==
    /\ PipelineInit
    /\ [][PipelineNext]_vars
    /\ WF_vars(SessionStart)
    /\ WF_vars(FeederStep)
    /\ WF_vars(WorkerStep)
    /\ WF_vars(WorkerParse)
    /\ WF_vars(CloserStep)
    /\ WF_vars(CollectingStep)

\* The collecting call has returned and no goroutine of the pipeline is
\* left.
PipelineOver ==
    /\ sessPc \in {"done", "failed"}
    /\ PipelineStarted =>
          /\ feeder.pc = "done"
          /\ wg = 0 /\ parsing = {}
          /\ closer = "done"

\* C27: every run of the pipeline ends: once the session-directory
\* goroutine is started, the collecting call returns and the feeder, every
\* worker and the closer exit, cancelled or not.
C27_PipelineTerminates == (sessPc = "ready") ~> PipelineOver

\* The collecting loop left on cancellation with files still unparsed, and
\* the feeder, both workers and the closer have exited since.
C27_Witness ==
    /\ PipelineStarted
    /\ sessPc = "failed"
    /\ ctxErr # NoErr
    /\ Len(filePaths) = 3
    /\ Received < 3
    /\ feeder.pc = "done" /\ wg = 0 /\ parsing = {} /\ closer = "done"

\* A sender that is at its send: the feeder with a path left to send, a
\* worker holding a path whose outcome goes to the record or to the error
\* channel.
FeederAtSend == feeder.pc = "run" /\ feeder.i <= Len(filePaths)
WorkerAtRecordSend ==
    \E path \in parsing : ~parseSessionFileSafe(kind, disk.files[path], path).err
WorkerAtErrorSend ==
    \E path \in parsing : parseSessionFileSafe(kind, disk.files[path], path).err

\* C28: each of the three channels never holds more than N items, and a
\* sender at its send always finds room (and the channel open), so no send
\* blocks, also after the collecting loop has left.
C28_SendsNeverBlock ==
    PipelineStarted =>
        /\ Len(fileChan.buf) <= Len(filePaths)
        /\ Len(resultChan.buf) <= Len(filePaths)
        /\ Len(errorChan.buf) <= Len(filePaths)
        /\ FeederAtSend => Len(fileChan.buf) < Len(filePaths) /\ ~fileChan.closed
        /\ WorkerAtRecordSend => Len(resultChan.buf) < Len(filePaths) /\ ~resultChan.closed
        /\ WorkerAtErrorSend => Len(errorChan.buf) < Len(filePaths) /\ ~errorChan.closed

\* The collecting loop has left on cancellation, two records wait in the
\* record channel and a worker is about to send the third.
C28_Witness ==
    /\ PipelineStarted
    /\ sessPc = "failed"
    /\ Len(filePaths) = 3
    /\ Len(resultChan.buf) = 2
    /\ WorkerAtRecordSend

\* What holds of the closed flags in every state of a started pipeline.
ClosedOnlyAfterWorkers ==
    PipelineStarted =>
        /\ resultChan.closed => wg = 0 /\ parsing = {} /\ closer \in {"closing", "done"}
        /\ errorChan.closed => resultChan.closed /\ closer = "done"
        /\ fileChan.closed <=> feeder.pc = "done"
        /\ closer = "done" => resultChan.closed /\ errorChan.closed

\* What holds of every step: a close acts on an open channel, by the
\* goroutine whose close it is, which then never closes again; a closed
\* channel stays closed and gets no further item.
ClosedOnceNoSendAfter ==
    /\ (fileChan'.closed /\ ~fileChan.closed) => feeder.pc = "run" /\ feeder'.pc = "done"
    /\ (resultChan'.closed /\ ~resultChan.closed) => closer = "wait" /\ closer' = "closing"
    /\ (errorChan'.closed /\ ~errorChan.closed) => closer = "closing" /\ closer' = "done"
    /\ feeder.pc = "done" => feeder'.pc = "done"
    /\ closer = "closing" => closer' \in {"closing", "done"}
    /\ closer = "done" => closer' = "done"
    /\ fileChan.closed => fileChan'.closed /\ Len(fileChan'.buf) <= Len(fileChan.buf)
    /\ resultChan.closed => resultChan'.closed /\ Len(resultChan'.buf) <= Len(resultChan.buf)
    /\ errorChan.closed => errorChan'.closed /\ Len(errorChan'.buf) <= Len(errorChan.buf)

\* C29: the record and the error channel are closed once each, by the
\* closer, after every worker has returned; the input channel is closed
\* once, by the feeder; and nothing is sent on a closed channel.
C29_ChannelsClosedOnceAfterWorkers ==
    [](ClosedOnlyAfterWorkers) /\ [][ClosedOnceNoSendAfter]_vars

\* After a cancellation all three channels are closed, every goroutine has
\* returned, and a record nobody received is still in the record channel.
C29_Witness ==
    /\ PipelineStarted
    /\ ctxErr # NoErr
    /\ fileChan.closed /\ resultChan.closed /\ errorChan.closed
    /\ feeder.pc = "done" /\ closer = "done" /\ wg = 0
    /\ Len(resultChan.buf) > 0
    /\ ~resultChan.nil

\* ------------------------------------------------- the worker pool
\* Collect over a session directory of up to MaxWorkerFiles files on a
\* machine of up to MaxThreads hardware threads, followed up to the moment
\* the workers hold their paths.
MaxWorkerFiles == 11
MaxThreads == 11

WorkersInit ==
    /\ kind \in {SourceGeminiCLI, SourceAmazonQ}
    /\ req = [nil |-> FALSE, DateRange |-> NilRange]
    /\ cfg = [HistoryFile |-> FALSE, SessionDir |-> TRUE]
    /\ disk \in { [configDir |-> TRUE, history |-> NoHistory, sessionDir |-> "ok",
                   files |-> [i \in 1..n |-> File(TRUE, 1, TRUE, TRUE, EarlyTime)],
                   aws |-> {}, cpus |-> c] :
                   n \in 0..MaxWorkerFiles, c \in 1..MaxThreads }
    /\ ctxErr = NoErr
    /\ pc = "start"
    /\ allSessions = <<>>
    /\ errs = <<>>
    /\ logs = {}
    /\ hist = [pc |-> "off", lineNum |-> 0, sessions |-> <<>>]
    /\ aws = "off"
    /\ sessPc = "off"
    /\ fileChan = NoChan /\ resultChan = NoChan /\ errorChan = NoChan
    /\ wg = 0
    /\ parsing = {}
    /\ feeder = [pc |-> "off", i |-> 1]
    /\ closer = "off"
    /\ sessions = <<>>
    /\ errors = <<>>
    /\ walk = 0
    /\ ret = [sessions |-> <<>>, err |-> NoErr]

WorkersNext ==
    \/ CollectStart
    \/ SessionStart
    \/ FeederSend
    \/ FeederClose
    \/ WorkerRecv
    \/ AwsCollect
    \/ CollectFinish

SpecWorkers == WorkersInit /\ [][WorkersNext]_vars

\* The session-directory goroutine has run its walk and worker count.
Launched == sessPc \notin {"off", "ready"}

\* C30: the worker count is the least of 10, the file count and the
\* hardware thread count; that many workers are started, so never more
\* than 10 files are with workers; and when the count is zero the pipeline
\* returns at once an empty result and no error, with no channel in use
\* and no goroutine started.
C30_WorkerCountIsMinOfThree ==
    LET n == Len(filePaths)
        c == HardwareThreads
        w == numWorkers
    IN  /\ w <= 10 /\ w <= n /\ w <= c
        /\ w \in {10, n, c}
        /\ PipelineStarted => w > 0 /\ wg = w
        /\ Cardinality(parsing) <= wg
        /\ Cardinality(parsing) <= 10
        /\ (Launched /\ w = 0) =>
              /\ sessPc = "done"
              /\ allSessions = <<>> /\ errs = <<>>
              /\ fileChan = NoChan /\ resultChan = NoChan /\ errorChan = NoChan
              /\ wg = 0 /\ feeder.pc = "off" /\ closer = "off"

\* More than ten files on a machine of more than ten threads: ten workers,
\* each holding a path, and a path still waiting.
C30_Witness ==
    /\ Len(filePaths) > maxWorkers
    /\ HardwareThreads > maxWorkers
    /\ wg = maxWorkers
    /\ Cardinality(parsing) = maxWorkers
    /\ fileChan.buf # <<>>

\* ------------------------------------------------ the shared slices
\* How often r occurs in the sequence s.
Occurrences(s, r) == Cardinality({i \in 1..Len(s) : s[i] = r})

\* What each branch returned to its goroutine, when it returned records.
HistoryReturned == IF hist.pc = "done" THEN hist.sessions ELSE <<>>
SessionDirReturned == IF sessPc = "done" THEN sessions ELSE <<>>
AwsReturned == IF aws = "done" THEN awsSessions(1, <<>>) ELSE <<>>

BranchesFailed ==
    Cardinality({b \in {"history", "session", "aws"} :
                    \/ b = "history" /\ hist.pc = "failed"
                    \/ b = "session" /\ sessPc = "failed"
                    \/ b = "aws" /\ aws = "failed"})

\* C31: at every moment the shared record slice holds exactly the records
\* of the branches that have returned records, each as often as its branch
\* returned it; the shared error slice has one entry per failed branch;
\* and Collect reads them only when every branch has returned.
C31_SharedSlicesAreTheUnion ==
    Concurrent =>
        /\ Len(allSessions) = Len(HistoryReturned) + Len(SessionDirReturned) + Len(AwsReturned)
        /\ \A r \in Range(allSessions) \cup Range(HistoryReturned)
                    \cup Range(SessionDirReturned) \cup Range(AwsReturned) :
              Occurrences(allSessions, r) =
                  Occurrences(HistoryReturned, r) + Occurrences(SessionDirReturned, r)
                     + Occurrences(AwsReturned, r)
        /\ Len(errs) = BranchesFailed
        /\ (Done /\ ~req.nil /\ disk.configDir) =>
              Finished(hist.pc) /\ Finished(sessPc) /\ Finished(aws)

\* Both branches of a gemini_cli Collect have handed over a record each,
\* the history branch last.
C31_Witness ==
    /\ kind = SourceGeminiCLI
    /\ Done
    /\ hist.pc = "done" /\ sessPc = "done"
    /\ Len(hist.sessions) = 1 /\ Len(sessions) = 1
    /\ allSessions = sessions \o hist.sessions

\* ------------------------------------------------- a failing walk
\* A session directory whose walk meets an error at entry failAt, after
\* the up to MaxWalkFiles files before it were discovered; a history file
\* of at most one line beside it.
MaxWalkFiles == 2

WalkHistories(k) == {h \in HistoryChoices(k) : h.size = 1 \/ h = NoHistory}

WalkInit ==
    /\ kind \in Sources
    /\ req = [nil |-> FALSE, DateRange |-> NilRange]
    /\ cfg \in [HistoryFile : BOOLEAN, SessionDir : {TRUE}]
    /\ disk \in { [configDir |-> TRUE, history |-> h, sessionDir |-> "walkerror",
                   files |-> fs, aws |-> {}, failAt |-> Len(fs) + 1] :
                   h \in WalkHistories(kind),
                   fs \in SeqsUpTo(SessionFileChoices(kind), MaxWalkFiles) }
    /\ (~cfg.HistoryFile => disk.history = NoHistory)
    /\ ctxErr = NoErr
    /\ pc = "start"
    /\ allSessions = <<>>
    /\ errs = <<>>
    /\ logs = {}
    /\ hist = [pc |-> "off", lineNum |-> 0, sessions |-> <<>>]
    /\ aws = "off"
    /\ sessPc = "off"
    /\ fileChan = NoChan /\ resultChan = NoChan /\ errorChan = NoChan
    /\ wg = 0
    /\ parsing = {}
    /\ feeder = [pc |-> "off", i |-> 1]
    /\ closer = "off"
    /\ sessions = <<>>
    /\ errors = <<>>
    /\ walk = 0
    /\ ret = [sessions |-> <<>>, err |-> NoErr]

WalkNext ==
    \/ CollectStart
    \/ HistoryStart
    \/ HistoryScan
    \/ SessionStart
    \/ AwsCollect
    \/ CollectFinish
    \/ ClaudeStart
    \/ ClaudeHistory
    \/ ClaudeCheck
    \/ ClaudeWalk

SpecWalk == WalkInit /\ [][WalkNext]_vars

\* The records of the files discovered before the walk's error.
DiscoveredRecords ==
    { parseFile(i).session : i \in {j \in 1..Len(disk.files) :
                                       j < WalkFailsAt /\ ~parseFile(j).err} }

\* Collect has returned after the walk met its error.
ReturnedAfterWalkError ==
    /\ Done
    /\ disk.sessionDir = "walkerror"
    /\ IF Concurrent
       THEN sessPc = "failed"
       ELSE <<"session directory collection failed", "walk">> \in logs

\* C32: after a walk error the records of the files discovered before it
\* are returned.
C32_DiscoveredFilesSurviveWalkError ==
    ReturnedAfterWalkError => DiscoveredRecords \subseteq Range(ret.sessions)

\* C32 amended: a walk error aborts the whole session-directory step: the
\* step fails with the walk error, which is recorded, none of the files
\* discovered before the error contributes a record, no worker is started,
\* and the history branch's records are still returned.
C32_WalkErrorDiscardsDiscoveredFiles ==
    ReturnedAfterWalkError =>
        /\ \A r \in Range(ret.sessions) : r.source_type \notin {"session", "text"}
        /\ DiscoveredRecords \cap Range(ret.sessions) = {}
        /\ ~PipelineStarted
        /\ Concurrent => \E i \in 1..Len(errs) :
                            errs[i] = [branch |-> "session", err |-> "failed to walk session directory"]
        /\ ret.err = NoErr
        /\ HistoryBranchOk => Returned(HistoryBranchRecords)

\* claude_code parsed two files, then the walk met its error: Collect
\* returned the history record alone.
C32_Witness ==
    /\ ReturnedAfterWalkError
    /\ kind = SourceClaudeCode
    /\ Len(sessions) = 2
    /\ Cardinality(DiscoveredRecords) = 2
    /\ Len(ret.sessions) = 1
    /\ HistoryBranchOk

\* C33: Collect returns the session files' records in the order in which
\* the files were discovered, however the workers are scheduled.
C33_RecordsInDiscoveryOrder ==
    (Done /\ ctxErr = NoErr /\ ret.err = NoErr /\ sessPc = "done") =>
        \A i, j \in 1..Len(ret.sessions) :
            (/\ i < j
             /\ ret.sessions[i].source_type \in {"session", "text"}
             /\ ret.sessions[j].source_type \in {"session", "text"})
            => ret.sessions[i].idx < ret.sessions[j].idx

\* ------------------------------------------- package initialisation
\* The init functions of package collector and the source each registers.
InitFunctions == {"gemini init", "amazonq init"}

InitRegisters(f) == IF f = "gemini init" THEN SourceGeminiCLI ELSE SourceAmazonQ

\* The program before its init functions have run, with a request for
\* CollectService.Execute naming known sources only.
StartupInit ==
    /\ kind = CollectServiceExecute
    /\ req \in { [nil |-> FALSE, DateRange |-> NilRange, Sources |-> ss] :
                   ss \in SeqsUpTo(Sources, MaxSources) \ {<<>>} }
    /\ cfg = [nil |-> FALSE, sources |-> Sources]
    /\ disk = [registered |-> {}, inits |-> InitFunctions]
    /\ ctxErr = NoErr
    /\ pc = "init"
    /\ allSessions = <<>>
    /\ errs = <<>>
    /\ logs = <<>>
    /\ hist = [pc |-> "off", lineNum |-> 0, sessions |-> <<>>]
    /\ aws = "off"
    /\ sessPc = "off"
    /\ fileChan = NoChan /\ resultChan = NoChan /\ errorChan = NoChan
    /\ wg = 0
    /\ parsing = {}
    /\ feeder = [pc |-> "off", i |-> 1]
    /\ closer = "off"
    /\ sessions = <<>>
    /\ errors = <<>>
    /\ walk = 0
    /\ ret = NilResult("not returned")

\* One init function runs: Register(source, constructor).
PackageInit ==
    /\ pc = "init"
    /\ \E f \in disk.inits :
          disk' = [registered |-> disk.registered \cup {InitRegisters(f)},
                   inits |-> disk.inits \ {f}]
    /\ UNCHANGED <<kind, req, cfg, ctxErr, pc, allSessions, errs, logs, hist, aws, sessPc,
                   pipeVars, walk, ret>>

\* Initialisation is over; main runs and the command calls Execute.
MainStart ==
    /\ pc = "init"
    /\ disk.inits = {}
    /\ pc' = "start"
    /\ UNCHANGED <<envVars, ctxErr, allSessions, errs, logs, hist, aws, sessPc, pipeVars,
                   walk, ret>>

StartupNext ==
    \/ PackageInit
    \/ MainStart
    \/ OrchStart
    \/ OrchIterate
    \/ OrchFinish

SpecStartup == StartupInit /\ [][StartupNext]_vars

\* C34: once initialisation is over the registry holds a constructor for
\* claude_code, gemini_cli and amazon_q, and Execute resolves every source
\* it is asked for.
C34_RegistryHoldsAllThreeSources ==
    pc # "init" =>
        /\ Sources \subseteq disk.registered
        /\ \A p \in 1..Len(logs) : logs[p].resolved

\* CollectService.Execute is in its loop with a source still to start.
ExecuteAboutToStartSource ==
    kind = CollectServiceExecute /\ pc = "loop" /\ walk < Len(req.Sources)

\* C35: when the context is cancelled as Execute is about to start its
\* next source, the step Execute takes returns a nil result and the
\* context's error and attempts no source; whenever Execute has returned
\* the context's error nothing of what the earlier sources gave is in what
\* it returned.
C35_CancelledExecuteDiscardsAll ==
    /\ [](kind = CollectServiceExecute /\ pc = "done" /\ ret.err \in CtxErrors =>
             /\ ret.nil
             /\ ret.Sessions = <<>> /\ ret.Errors = <<>>
             /\ ret.err = ctxErr
             /\ Len(logs) = walk /\ walk < Len(req.Sources))
    /\ [][(ExecuteAboutToStartSource /\ ctxErr # NoErr /\ <<pc, walk, ret, logs>>' # <<pc, walk, ret, logs>>)
             => (pc' = "done" /\ ret' = NilResult(ctxErr) /\ walk' = walk /\ logs' = logs)]_vars

\* Execute collected a session from its first source, found the context
\* cancelled before the second and returned nothing.
C35_Witness ==
    /\ kind = CollectServiceExecute
    /\ pc = "done"
    /\ ret = NilResult(ctxErr)
    /\ ctxErr \in CtxErrors
    /\ Len(req.Sources) = 2
    /\ walk = 1
    /\ Len(logs[1].got.sessions) = 1

\* -------------------------------------------------- Processor.Process
\* Process is handed the slice of up to MaxProcessSessions sessions of a
\* CollectionResult.  allSessions is the slice's backing array, which the
\* caller and Process share; disk.given is what it held at the call.
MaxProcessSessions == 3

ProcessSources == {SourceClaudeCode, SourceGeminiCLI}
ProcessTimes == {EarlyTime, MidTime, LateTime}

GivenSessions ==
    UNION { { [i \in 1..n |-> Session(src[i], i, ts[i])] :
                src \in [1..n -> ProcessSources], ts \in [1..n -> ProcessTimes] } :
            n \in 0..MaxProcessSessions }

ProcessInit ==
    /\ kind = "processor"
    /\ disk \in { [given |-> s] : s \in GivenSessions }
    /\ allSessions = disk.given
    /\ req = [nil |-> FALSE, DateRange |-> NilRange]
    /\ cfg = [HistoryFile |-> FALSE, SessionDir |-> FALSE]
    /\ ctxErr = NoErr
    /\ pc = "start"
    /\ errs = <<>>
    /\ logs = {}
    /\ hist = [pc |-> "off", lineNum |-> 0, sessions |-> <<>>]
    /\ aws = "off"
    /\ sessPc = "off"
    /\ fileChan = NoChan /\ resultChan = NoChan /\ errorChan = NoChan
    /\ wg = 0
    /\ parsing = {}
    /\ feeder = [pc |-> "off", i |-> 1]
    /\ closer = "off"
    /\ sessions = <<>>
    /\ errors = <<>>
    /\ walk = 0
    /\ ret = [op |-> "none"]

\* ProcessedData{} and a ProcessedData with its sessions, groups and count.
EmptyProcessedData == [Sessions |-> <<>>, SourceCounts |-> [s \in {} |-> 0], TotalSessions |-> 0]

\* The results sort.Slice can leave in the slice: the same elements, later
\* timestamps first; sort.Slice is not stable, so elements of one timestamp
\* end in any order.
SortedByTimestampDesc(s) ==
    { [i \in 1..Len(s) |-> s[p[i]]] :
        p \in { q \in [1..Len(s) -> 1..Len(s)] :
                  /\ \A i, j \in 1..Len(s) : i # j => q[i] # q[j]
                  /\ \A i, j \in 1..Len(s) : i < j => s[q[i]].ts >= s[q[j]].ts } }

\* A Process that sorts a copy of the slice.
ProcessSortCopy ==
    /\ pc = "start"
    /\ IF ctxErr # NoErr
       THEN /\ pc' = "done"
            /\ ret' = [op |-> "Process", data |-> EmptyProcessedData, err |-> ctxErr]
            /\ UNCHANGED <<allSessions, sessions>>
       ELSE IF Len(allSessions) = 0
       THEN /\ pc' = "done"
            /\ ret' = [op |-> "Process", data |-> EmptyProcessedData, err |-> NoErr]
            /\ UNCHANGED <<allSessions, sessions>>
       ELSE /\ pc' = "sorted"
            /\ sessions' \in SortedByTimestampDesc(allSessions)
            /\ UNCHANGED <<allSessions, ret>>
    /\ UNCHANGED <<envVars, ctxErr, errs, logs, hist, aws, sessPc, fileChan, resultChan,
                   errorChan, wg, parsing, feeder, closer, errors, walk>>

\* Process up to its second context check: the first check, the empty
\* case, and sort.Slice on the slice it was given.  sessions is Process's
\* parameter, a view of the same backing array.
ProcessSort ==
    /\ pc = "start"
    /\ IF ctxErr # NoErr
       THEN /\ pc' = "done"
            /\ ret' = [op |-> "Process", data |-> EmptyProcessedData, err |-> ctxErr]
            /\ UNCHANGED <<allSessions, sessions>>
       ELSE IF Len(allSessions) = 0
       THEN /\ pc' = "done"
            /\ ret' = [op |-> "Process", data |-> EmptyProcessedData, err |-> NoErr]
            /\ UNCHANGED <<allSessions, sessions>>
       ELSE /\ pc' = "sorted"
            /\ allSessions' \in SortedByTimestampDesc(allSessions)
            /\ sessions' = allSessions'
            /\ UNCHANGED ret
    /\ UNCHANGED <<envVars, ctxErr, errs, logs, hist, aws, sessPc, fileChan, resultChan,
                   errorChan, wg, parsing, feeder, closer, errors, walk>>

\* The rest of Process: the second context check, the groups, the
\* statistics and the return.
ProcessFinish ==
    /\ pc = "sorted"
    /\ pc' = "done"
    /\ ret' = IF ctxErr # NoErr
              THEN [op |-> "Process", data |-> EmptyProcessedData, err |-> ctxErr]
              ELSE [op |-> "Process",
                    data |-> [Sessions |-> sessions,
                              SourceCounts |->
                                  [s \in {sessions[i].source_type : i \in 1..Len(sessions)} |->
                                      Cardinality({i \in 1..Len(sessions) : sessions[i].source_type = s})],
                              TotalSessions |-> Len(sessions)],
                    err |-> NoErr]
    /\ UNCHANGED <<envVars, ctxErr, allSessions, errs, logs, hist, aws, sessPc, pipeVars, walk>>

ProcessNext ==
    \/ Cancel
    \/ ProcessSort
    \/ ProcessFinish

SpecProcess == ProcessInit /\ [][ProcessNext]_vars

\* C36: when Process has returned, the session sequence it was given has
\* the same elements in the same order as before the call.
C36_ProcessLeavesSessionsAsGiven ==
    (kind = "processor" /\ pc = "done") => allSessions = disk.given

\* ------------------------------------------------------------------
\* The data directory ./.ssamai/data: saveCollectedData writes it,
\* loadLatestCollectedData and ExportService.ExportFromFile read it.
\* disk is the directory, hist the saveCollectedData calls made so far
\* with what each returned, ret what the command that ran last returned.
\* ------------------------------------------------------------------
MaxSaves == 2
MaxSaveSeconds == 2
MaxClock == 3

\* A file name of the data directory, its parts as strings.HasPrefix and
\* strings.HasSuffix see them; stamp is the text between the two.
FileName(prefix, stamp, suffix) == [prefix |-> prefix, stamp |-> stamp, suffix |-> suffix]

latestPath == FileName("latest", 0, ".json")

\* collection-<timestamp>.json: CollectedAt formatted as 20060102-150405
\* keeps the second and drops the fraction.
snapshotName(collectedAt) == FileName("collection-", collectedAt.sec, ".json")

\* Entries other programs or the user leave in the directory: a file of
\* another suffix, a file of another prefix, a directory whose name has
\* the snapshot form.
OtherNames ==
    { FileName("collection-", 1, ".txt"), FileName("backup-", 1, ".json"),
      FileName("collection-", 0, ".json") }

StoreNames ==
    {latestPath} \cup { FileName("collection-", s, ".json") : s \in 1..MaxSaveSeconds }
                 \cup OtherNames

\* models.SessionData as the data directory stores it: its ID and whether
\* its metadata carries fallback=true.
StoredSession(id, fallback) == [ID |-> id, fallback |-> fallback]

\* The *models.CollectionResult values handed to saveCollectedData.
StoreResults ==
    { [Sessions |-> ss, TotalCount |-> Len(ss), CollectedAt |-> [sec |-> s, frac |-> f],
       Errors |-> <<>>] :
        ss \in { <<StoredSession("a", FALSE)>>,
                 <<StoredSession("b", FALSE), StoredSession("a", FALSE)>> },
        s \in 1..MaxSaveSeconds, f \in {0, 1} }

NoDocument ==
    [Sessions |-> <<>>, TotalCount |-> 0, CollectedAt |-> [sec |-> 0, frac |-> 0],
     Errors |-> <<>>]

\* json.MarshalIndent of a result: a JSON document of all its fields
\* (collected_at in RFC 3339 with its fraction).  NotJSON is content that
\* json.Unmarshal rejects.
MarshalIndent(result) == [json |-> TRUE, doc |-> result]
NotJSON == [json |-> FALSE, doc |-> NoDocument]

\* What a file of another name holds: a result that is not one of the saved ones.
OtherDocument ==
    MarshalIndent([Sessions |-> <<StoredSession("other", FALSE)>>, TotalCount |-> 1,
                   CollectedAt |-> [sec |-> 0, frac |-> 0], Errors |-> <<>>])

Absent == [exists |-> FALSE, isDir |-> FALSE, content |-> NotJSON, mtime |-> 0]
RegularFile(data, mtime) == [exists |-> TRUE, isDir |-> FALSE, content |-> data, mtime |-> mtime]
Directory(mtime) == [exists |-> TRUE, isDir |-> TRUE, content |-> NotJSON, mtime |-> mtime]

\* The two errors saveCollectedData returns (their texts are Korean:
\* "creating the data directory failed", "saving the file failed").
ErrMkdir == "mkdir data directory failed"
ErrWriteFile == "write file failed"

StoreInit ==
    /\ kind = "store"
    /\ disk \in { [dirExists |-> d, files |-> [n \in StoreNames |-> Absent], clock |-> 1] :
                    d \in BOOLEAN }
    /\ hist = <<>>
    /\ ret = [op |-> "none"]
    /\ req = [nil |-> FALSE, DateRange |-> NilRange]
    /\ cfg = [HistoryFile |-> FALSE, SessionDir |-> FALSE]
    /\ ctxErr = NoErr
    /\ pc = "idle"
    /\ allSessions = <<>>
    /\ errs = <<>>
    /\ logs = {}
    /\ aws = "off"
    /\ sessPc = "off"
    /\ fileChan = NoChan /\ resultChan = NoChan /\ errorChan = NoChan
    /\ wg = 0
    /\ parsing = {}
    /\ feeder = [pc |-> "off", i |-> 1]
    /\ closer = "off"
    /\ sessions = <<>>
    /\ errors = <<>>
    /\ walk = 0

\* The file system's clock after a write: modification times are as
\* coarse as the clock, so two writes can carry the same one.
ClockAfter == { disk.clock, IF disk.clock < MaxClock THEN disk.clock + 1 ELSE disk.clock }

\* saveCollectedData(result).  mkdirOk, writeOk and latestOk are whether
\* os.MkdirAll, the snapshot's os.WriteFile and latest.json's os.WriteFile
\* succeed; the last failure is only printed and the call returns nil.
saveCollectedData(result, mkdirOk, writeOk, latestOk) ==
    /\ kind = "store"
    /\ Len(hist) < MaxSaves
    /\ disk.dirExists => mkdirOk
    /\ LET data == MarshalIndent(result)
           filePath == snapshotName(result.CollectedAt)
           written == [disk.files EXCEPT ![filePath] = RegularFile(data, disk.clock)]
           removed == [written EXCEPT ![latestPath] = Absent]
           copied == [written EXCEPT ![latestPath] = RegularFile(data, disk.clock)]
       IN  IF ~mkdirOk
           THEN /\ hist' = Append(hist, [result |-> result, err |-> ErrMkdir])
                /\ UNCHANGED disk
           ELSE IF ~writeOk
           THEN /\ hist' = Append(hist, [result |-> result, err |-> ErrWriteFile])
                /\ disk' = [disk EXCEPT !.dirExists = TRUE]
           ELSE /\ hist' = Append(hist, [result |-> result, err |-> NoErr])
                /\ \E c \in ClockAfter :
                       disk' = [dirExists |-> TRUE,
                                files |-> IF latestOk THEN copied ELSE removed,
                                clock |-> c]
    /\ ret' = [op |-> "saveCollectedData"]
    /\ UNCHANGED <<kind, req, cfg, ctxErr, pc, allSessions, errs, logs, aws, sessPc,
                   pipeVars, walk>>

SaveCall ==
    \E result \in StoreResults, mkdirOk, writeOk, latestOk \in BOOLEAN :
        saveCollectedData(result, mkdirOk, writeOk, latestOk)

\* Something else puts an entry of another name into the directory.
OtherWrite ==
    /\ kind = "store"
    /\ disk.dirExists
    /\ \E n \in OtherNames, data \in {OtherDocument} :
          /\ ~disk.files[n].exists
          /\ \E c \in ClockAfter :
                 disk' = [disk EXCEPT
                            !.files[n] = IF n.stamp = 0 THEN Directory(disk.clock)
                                         ELSE RegularFile(data, disk.clock),
                            !.clock = c]
    /\ ret' = [op |-> "none"]
    /\ UNCHANGED <<kind, req, cfg, ctxErr, pc, allSessions, errs, logs, hist, aws, sessPc,
                   pipeVars, walk>>

\* The file of this name holds this result.
FileHolds(name, result) ==
    /\ disk.files[name].exists
    /\ ~disk.files[name].isDir
    /\ disk.files[name].content = MarshalIndent(result)

AllSavesSucceeded == \A i \in 1..Len(hist) : hist[i].err = NoErr

\* C37: after saveCollectedData calls that all returned nil, latest.json
\* holds the result of the last call, and for every call the snapshot
\* file named after its CollectedAt holds that call's result.
C37_LatestAndEverySnapshotKept ==
    (kind = "store" /\ Len(hist) > 0 /\ AllSavesSucceeded) =>
        /\ FileHolds(latestPath, hist[Len(hist)].result)
        /\ \A i \in 1..Len(hist) :
               FileHolds(snapshotName(hist[i].result.CollectedAt), hist[i].result)

\* The same with latest.json left aside: every call's snapshot survives.
C37_EverySnapshotKept ==
    (kind = "store" /\ Len(hist) > 0 /\ AllSavesSucceeded) =>
        \A i \in 1..Len(hist) :
            FileHolds(snapshotName(hist[i].result.CollectedAt), hist[i].result)

\* os.ReadDir returns the entries sorted by file name.
PrefixOrder == <<"backup-", "collection-", "latest">>
SuffixOrder == <<".json", ".txt">>
IndexIn(seq, x) == CHOOSE i \in 1..Len(seq) : seq[i] = x

NameBefore(a, b) ==
    \/ IndexIn(PrefixOrder, a.prefix) < IndexIn(PrefixOrder, b.prefix)
    \/ /\ a.prefix = b.prefix
       /\ \/ a.stamp < b.stamp
          \/ a.stamp = b.stamp /\ IndexIn(SuffixOrder, a.suffix) < IndexIn(SuffixOrder, b.suffix)

RECURSIVE SortNames(_)
SortNames(S) ==
    IF S = {} THEN <<>>
    ELSE LET first == CHOOSE x \in S : \A y \in S \ {x} : NameBefore(x, y)
         IN  <<first>> \o SortNames(S \ {first})

ReadDir(files) == SortNames({ n \in DOMAIN files : files[n].exists })

NoFile == [found |-> FALSE, name |-> latestPath, time |-> 0]

\* A loop of findLatestDataFile that takes every regular file, whatever
\* its name.
RECURSIVE findLoopAnyName(_, _, _, _)
findLoopAnyName(files, entries, i, latest) ==
    IF i > Len(entries) THEN latest
    ELSE LET name == entries[i]
         IN  IF files[name].isDir
             THEN findLoopAnyName(files, entries, i + 1, latest)
             ELSE IF ~latest.found \/ files[name].mtime > latest.time
             THEN findLoopAnyName(files, entries, i + 1,
                                  [found |-> TRUE, name |-> name, time |-> files[name].mtime])
             ELSE findLoopAnyName(files, entries, i + 1, latest)

\* The loop of findLatestDataFile over the entries from the i-th on:
\* directories, latest.json and names that are not collection-*.json are
\* skipped; a file replaces the one found so far when none was found or
\* its modification time is strictly later.
RECURSIVE findLoop(_, _, _, _)
findLoop(files, entries, i, latest) ==
    IF i > Len(entries) THEN latest
    ELSE LET name == entries[i]
         IN  IF files[name].isDir
             THEN findLoop(files, entries, i + 1, latest)
             ELSE IF name = latestPath \/ name.prefix # "collection-" \/ name.suffix # ".json"
             THEN findLoop(files, entries, i + 1, latest)
             ELSE IF ~latest.found \/ files[name].mtime > latest.time
             THEN findLoop(files, entries, i + 1,
                           [found |-> TRUE, name |-> name, time |-> files[name].mtime])
             ELSE findLoop(files, entries, i + 1, latest)

\* A findLatestDataFile that looks at every regular file.
findLatestDataFileAnyName(d) ==
    IF ~d.dirExists THEN NoFile
    ELSE findLoopAnyName(d.files, ReadDir(d.files), 1, NoFile)

\* findLatestDataFile(dataDir): found is FALSE where it returns an error
\* (no directory, or no file of the form in it).
findLatestDataFile(d) ==
    IF ~d.dirExists THEN NoFile
    ELSE findLoop(d.files, ReadDir(d.files), 1, NoFile)

ErrUnmarshal == "invalid data file format"

\* loadDataFromFile: os.ReadFile and json.Unmarshal into a CollectionResult.
loadDataFromFile(d, name) ==
    IF d.files[name].content.json
    THEN [result |-> d.files[name].content.doc, err |-> NoErr]
    ELSE [result |-> NoDocument, err |-> ErrUnmarshal]

DummyNotice == "no collected data, dummy data is used"

\* The three sessions loadLatestCollectedData makes up, their metadata
\* fallback "true".
DummyResult(now) ==
    [Sessions |-> << StoredSession("claude-session-export-demo", TRUE),
                     StoredSession("gemini-session-export-demo", TRUE),
                     StoredSession("amazonq-session-export-demo", TRUE) >>,
     TotalCount |-> 3,
     CollectedAt |-> [sec |-> now, frac |-> 0],
     Errors |-> <<DummyNotice>>]

loadLatestCollectedData ==
    /\ kind = "store"
    /\ LET latestFile == findLatestDataFile(disk)
           loaded == IF disk.dirExists /\ disk.files[latestPath].exists
                     THEN loadDataFromFile(disk, latestPath)
                     ELSE IF latestFile.found
                     THEN loadDataFromFile(disk, latestFile.name)
                     ELSE [result |-> DummyResult(disk.clock), err |-> NoErr]
       IN  ret' = [op |-> "loadLatestCollectedData", result |-> loaded.result,
                   err |-> loaded.err]
    /\ UNCHANGED <<envVars, ctxErr, pc, allSessions, errs, logs, hist, aws, sessPc,
                   pipeVars, walk>>

\* The regular files of the directory named collection-*.json.
CollectionFiles ==
    { n \in StoreNames : /\ disk.files[n].exists /\ ~disk.files[n].isDir
                         /\ n.prefix = "collection-" /\ n.suffix = ".json" }

\* C38: what loadLatestCollectedData returns is the content of
\* latest.json when that file exists; otherwise the content of a
\* collection-*.json file than which no other is newer; otherwise, with
\* a nil error, three or more sessions that all carry fallback=true
\* together with the error string that says dummy data is used.
C38_LoadLatestPicksTheRightData ==
    (kind = "store" /\ ret.op = "loadLatestCollectedData") =>
        IF disk.files[latestPath].exists
        THEN ret.err = NoErr /\ MarshalIndent(ret.result) = disk.files[latestPath].content
        ELSE IF CollectionFiles # {}
        THEN /\ ret.err = NoErr
             /\ \E n \in CollectionFiles :
                    /\ \A m \in CollectionFiles : disk.files[m].mtime <= disk.files[n].mtime
                    /\ MarshalIndent(ret.result) = disk.files[n].content
        ELSE /\ ret.err = NoErr
             /\ Len(ret.result.Sessions) >= 3
             /\ \A i \in 1..Len(ret.result.Sessions) : ret.result.Sessions[i].fallback
             /\ DummyNotice \in Range(ret.result.Errors)

\* latest.json is missing, two snapshots of different ages are there and
\* an entry of another name is newer than both.
C38_Witness ==
    /\ kind = "store" /\ ret.op = "loadLatestCollectedData"
    /\ ~disk.files[latestPath].exists
    /\ \E n, m \in CollectionFiles : disk.files[n].mtime < disk.files[m].mtime
    /\ \E o \in OtherNames :
           /\ disk.files[o].exists /\ ~disk.files[o].isDir
           /\ \A n \in CollectionFiles : disk.files[o].mtime > disk.files[n].mtime
           /\ disk.files[o].content # MarshalIndent(ret.result)

\* The inputPath arguments of ExportFromFile: the empty string, the word
\* latest, and the path of a snapshot in the data directory.
EmptyPath == FileName("", 0, "")
LatestWord == FileName("latest", 0, "")
InputPaths ==
    {EmptyPath, LatestWord} \cup { FileName("collection-", s, ".json") : s \in 1..MaxSaveSeconds }

ErrNoDataFile == "data file does not exist"
ErrLoadFailed == "data load failed"
ErrProcessFailed == "data processing failed"
ErrNotConfigured == "processor or exporter not set"

\* The file loadCollectedData looks at.
filePathOf(inputPath) ==
    IF inputPath = EmptyPath \/ inputPath = LatestWord THEN latestPath ELSE inputPath

\* A loadCollectedData that reads the file and parses it.
loadCollectedDataParsed(d, inputPath) ==
    IF ~(d.dirExists /\ d.files[filePathOf(inputPath)].exists)
    THEN [Sessions |-> <<>>, err |-> ErrNoDataFile]
    ELSE [Sessions |-> loadDataFromFile(d, filePathOf(inputPath)).result.Sessions,
          err |-> loadDataFromFile(d, filePathOf(inputPath)).err]

\* ExportService.loadCollectedData: the os.Stat check, then (in place of
\* the reading and parsing, which are a TODO) a result whose Sessions is
\* an empty slice.
loadCollectedData(d, inputPath) ==
    IF ~(d.dirExists /\ d.files[filePathOf(inputPath)].exists)
    THEN [Sessions |-> <<>>, err |-> ErrNoDataFile]
    ELSE [Sessions |-> <<>>, err |-> NoErr]

NothingExported == [done |-> FALSE, Sessions |-> <<>>]

\* ExportFromFile(ctx, inputPath, ...): c is ctx.Err() during the call,
\* hasProcessor and hasExporter whether the service's fields are set.
\* handed is what Process was called with, exported what Export was.
ExportFromFile(c, inputPath, hasProcessor, hasExporter) ==
    /\ kind = "store"
    /\ LET data == loadCollectedData(disk, inputPath)
           call == [op |-> "ExportFromFile", inputPath |-> inputPath, ctx |-> c,
                    processor |-> hasProcessor, exporter |-> hasExporter]
       IN  ret' =
             IF data.err # NoErr
             THEN call @@ [processed |-> FALSE, handed |-> <<>>,
                           exported |-> NothingExported, err |-> ErrLoadFailed]
             ELSE IF ~hasProcessor
             THEN call @@ [processed |-> FALSE, handed |-> <<>>,
                           exported |-> NothingExported, err |-> ErrNotConfigured]
             ELSE IF c # NoErr
             THEN call @@ [processed |-> TRUE, handed |-> data.Sessions,
                           exported |-> NothingExported, err |-> ErrProcessFailed]
             ELSE IF ~hasExporter
             THEN call @@ [processed |-> TRUE, handed |-> data.Sessions,
                           exported |-> NothingExported, err |-> ErrNotConfigured]
             ELSE call @@ [processed |-> TRUE, handed |-> data.Sessions,
                           exported |-> [done |-> TRUE, Sessions |-> data.Sessions],
                           err |-> NoErr]
    /\ UNCHANGED <<envVars, ctxErr, pc, allSessions, errs, logs, hist, aws, sessPc,
                   pipeVars, walk>>

ExportCall ==
    \E c \in {NoErr} \cup CtxErrors, inputPath \in InputPaths,
       hasProcessor, hasExporter \in BOOLEAN :
        ExportFromFile(c, inputPath, hasProcessor, hasExporter)

\* Saving and loading, with other entries coming into the directory.
StoreNext ==
    \/ SaveCall
    \/ OtherWrite
    \/ loadLatestCollectedData

SpecStore == StoreInit /\ [][StoreNext]_vars

\* Saving and exporting from the saved files.
ExportNext ==
    \/ SaveCall
    \/ ExportCall

SpecExport == StoreInit /\ [][ExportNext]_vars

\* The file an ExportFromFile call named holds what a saveCollectedData
\* call wrote there.
ExportedFileSavedBy(i) ==
    /\ hist[i].err = NoErr
    /\ filePathOf(ret.inputPath) \in {latestPath, snapshotName(hist[i].result.CollectedAt)}
    /\ FileHolds(filePathOf(ret.inputPath), hist[i].result)

\* C39: when ExportFromFile has run with a live context and both a
\* processor and an exporter on a file that saveCollectedData(result)
\* wrote, the sessions handed to the processor and to the exporter are
\* result.Sessions; when the file it names is missing, it returns an
\* error and nothing is exported.
C39_ExportFromFileExportsTheSavedSessions ==
    (kind = "store" /\ ret.op = "ExportFromFile") =>
        /\ \A i \in 1..Len(hist) :
               (ExportedFileSavedBy(i) /\ ret.ctx = NoErr /\ ret.processor /\ ret.exporter) =>
                   /\ ret.processed /\ ret.handed = hist[i].result.Sessions
                   /\ ret.exported.done /\ ret.exported.Sessions = hist[i].result.Sessions
        /\ ~disk.files[filePathOf(ret.inputPath)].exists =>
               ret.err # NoErr /\ ~ret.exported.done

\* The half about the missing file alone.
C39_MissingFileIsAnError ==
    (kind = "store" /\ ret.op = "ExportFromFile"
        /\ ~disk.files[filePathOf(ret.inputPath)].exists) =>
            ret.err # NoErr /\ ~ret.exported.done /\ ~ret.processed

====
